---------------------------- MODULE Spec2Model ----------------------------
(***************************************************************************)
(* Verification model of the Snowflake observability dashboard.            *)
(*                                                                         *)
(* Part 1 (specification Spec): the result cache that wraps every query    *)
(* method of SnowflakeQueries (@st.cache_data(ttl=3600)) and the           *)
(* "Refresh Data" button (st.cache_data.clear()).                          *)
(*                                                                         *)
(* Part 2 (specification SpecAnomaly): the z-score cost anomaly queries    *)
(* of the Cost Management page, the home page and the single-file app.     *)
(*                                                                         *)
(* Parts 3 to 8 (SpecAdvisor, SpecClassifier, SpecForecast,                *)
(* SpecAttribution, SpecFailure, SpecSession): the warehouse               *)
(* recommendations, the query issue classifier, the linear forecasts, the  *)
(* cost attribution, queries that fail under the cache, and the session    *)
(* settings.                                                               *)
(***************************************************************************)
EXTENDS Integers, Sequences, FiniteSets, TLC

VARIABLES
    cache,          \* st.cache_data store: key -> [val, ts, by]
    now,            \* wall clock, seconds
    telemetry,      \* the content of the ACCOUNT_USAGE data the queries read
    pc,             \* per session: "idle" | "running" (compute_fn in flight)
    req,            \* per session: the key of the call in progress
    local,          \* per session: the value its compute_fn run produces
    ret,            \* the most recent return of a cached call
    calls,          \* number of cached calls made so far
    sinceRefresh,   \* keys written since the last st.cache_data.clear()
    credit_cost,    \* st.session_state.credit_cost
    window,         \* daily SUM(CREDITS_USED), oldest day first
    out,            \* the result of the last anomaly query that ran
    wh_size,        \* WAREHOUSE_SIZE of the warehouse under advice
    wh_queries,     \* its QUERY_HISTORY rows: QUEUED_OVERLOAD_TIME, in ms
    wh_loads,       \* its WAREHOUSE_LOAD_HISTORY rows: AVG_RUNNING, in tenths
    advice,         \* the result of the last recommendations query that ran
    qrecords,       \* the QUERY_HISTORY rows of the window
    insights,       \* the result of the last query-insights query that ran
    usage,          \* per day, oldest first: SUM(CREDITS_USED) per warehouse
    forecast,       \* what the last forecast section that ran put on screen
    cost_groups,    \* TOTAL_COST per warehouse or user, in query order
    attribution,    \* what the last cost attribution tab that ran showed
    outcome,        \* how the last cached call that can fail came out
    session_state,  \* st.session_state: the settings keys present, with values
    widget_input    \* per sidebar widget, the value the user last entered

vars == <<cache, now, telemetry, pc, req, local, ret, calls, sinceRefresh,
          credit_cost, window, out,
          wh_size, wh_queries, wh_loads, advice,
          qrecords, insights, usage, forecast,
          cost_groups, attribution, outcome, session_state, widget_input>>

cacheVars == <<cache, now, telemetry, pc, req, local, ret, calls, sinceRefresh>>
anomalyVars == <<credit_cost, window, out>>
advisorVars == <<wh_size, wh_queries, wh_loads, advice>>

classifierVars == <<qrecords, insights>>
forecastVars == <<usage, forecast>>
attributionVars == <<cost_groups, attribution>>
failureVars == <<outcome>>
sessionVars == <<session_state, widget_input>>

\* What the actions of one part leave alone.
otherVars == <<attributionVars, failureVars, sessionVars>>
notCacheVars ==
    <<anomalyVars, advisorVars, classifierVars, forecastVars, otherVars>>
notAnomalyVars ==
    <<cacheVars, advisorVars, classifierVars, forecastVars, otherVars>>
notAdvisorVars ==
    <<cacheVars, anomalyVars, classifierVars, forecastVars, otherVars>>
notClassifierVars ==
    <<cacheVars, anomalyVars, advisorVars, forecastVars, otherVars>>
notForecastVars ==
    <<cacheVars, anomalyVars, advisorVars, classifierVars, otherVars>>
notAttributionVars ==
    <<cacheVars, anomalyVars, advisorVars, classifierVars, forecastVars,
      failureVars, sessionVars>>
notFailureVars ==
    <<anomalyVars, advisorVars, classifierVars, forecastVars,
      attributionVars, sessionVars>>
notSessionVars ==
    <<anomalyVars, advisorVars, classifierVars, forecastVars,
      attributionVars, failureVars>>

None == [none |-> TRUE]

-----------------------------------------------------------------------------
(* Part 1: the result cache                                                *)

\* Dashboard sessions; each builds its own SnowflakeQueries(session) object.
Sessions == {"s1", "s2"}

\* Two of the decorated query methods.
Fns == {"get_warehouse_metrics", "get_warehouse_recommendations"}

\* Values of the `days` argument (two options of the time period selectbox).
DaysArgs == {7, 30}

\* @st.cache_data(ttl=3600) / Config.CACHE_TTL
CACHE_TTL == 3600

\* The clock advances in steps of half an hour, at most MaxTicks times.
ClockSteps == {1800}
MaxTicks == 2
MaxClock == MaxTicks * 1800

\* At most this many cached calls are made in a run.
MaxCalls == 3

\* The successive contents of the ACCOUNT_USAGE views (usage only accrues).
DataVersions == {0, 1}

\* Variant: the hashed arguments are left out of the key.
MakeKey_IgnoresDays(_self, fn, days) == <<fn, 30>>

\* The cache key of a call: the function and its hashed arguments.  The
\* first parameter is named _self, and st.cache_data leaves parameters whose
\* name starts with an underscore out of the key.
MakeKey(_self, fn, days) == <<fn, days>>

\* Variant: the ttl is read as minutes.
IsFresh_Minutes(entry, t) == t - entry.ts < CACHE_TTL \div 60

\* Variant: an entry is still served when exactly ttl seconds old.
IsFresh_Inclusive(entry, t) == t - entry.ts <= CACHE_TTL

\* An entry is served while it is younger than the ttl.
IsFresh(entry, t) == t - entry.ts < CACHE_TTL

\* What the decorated method returns: session.sql(query).to_pandas(), a
\* table determined by the method's query text, the days interpolated into
\* it, and the telemetry at the time the query runs.
ComputeFn(fn, days, tel) == [fn |-> fn, days |-> days, ver |-> tel]

\* Variant: a write that finds an entry under the key keeps that entry's
\* time stamp.
WriteEntry_KeepsStamp(c, k, v, t, s) ==
    [x \in DOMAIN c \cup {k} |->
        IF x = k
        THEN [val |-> v, ts |-> IF k \in DOMAIN c THEN c[k].ts ELSE t, by |-> s]
        ELSE c[x]]

\* The store after a result is written: the entry of key k is replaced as a
\* whole by the new value stamped with the time of the write (and, for the
\* record, the session that wrote it); every other entry stays.
WriteEntry(c, k, v, t, s) ==
    [x \in DOMAIN c \cup {k} |->
        IF x = k THEN [val |-> v, ts |-> t, by |-> s] ELSE c[x]]

\* Variant: only the entries past their ttl are dropped.
ClearedCache_ExpiredOnly(c) ==
    [x \in {k \in DOMAIN c : now - c[k].ts < CACHE_TTL} |-> c[x]]

\* st.cache_data.clear(): every entry of every function goes.
ClearedCache(c) == << >>

CacheInit ==
    /\ cache = << >>
    /\ now = 0
    /\ telemetry = 0
    /\ pc = [s \in Sessions |-> "idle"]
    /\ req = [s \in Sessions |-> None]
    /\ local = [s \in Sessions |-> None]
    /\ ret = None
    /\ calls = 0
    /\ sinceRefresh = {}

\* A session calls queries.fn(days): the wrapper looks the key up.  A fresh
\* entry is returned at once.  Otherwise the wrapped method is called: it
\* issues its query, which reads the telemetry as it is now, and the call
\* stays in flight until the result has come back.
Lookup(s, fn, days) ==
    /\ pc[s] = "idle"
    /\ calls < MaxCalls
    /\ calls' = calls + 1
    /\ LET k == MakeKey(s, fn, days) IN
        IF k \in DOMAIN cache /\ IsFresh(cache[k], now)
        THEN /\ ret' = [to |-> s, fn |-> fn, days |-> days,
                        val |-> cache[k].val, src |-> "cache"]
             /\ UNCHANGED <<pc, req, local>>
        ELSE /\ pc' = [pc EXCEPT ![s] = "running"]
             /\ req' = [req EXCEPT ![s] = [fn |-> fn, days |-> days, key |-> k]]
             /\ local' = [local EXCEPT ![s] = ComputeFn(fn, days, telemetry)]
             /\ UNCHANGED ret
    /\ UNCHANGED <<cache, now, telemetry, sinceRefresh>>
    /\ UNCHANGED notCacheVars

\* The result is back: the wrapper writes it under the key, stamped with the
\* current time, and returns it to the caller.
Store(s) ==
    /\ pc[s] = "running"
    /\ cache' = WriteEntry(cache, req[s].key, local[s], now, s)
    /\ sinceRefresh' = sinceRefresh \cup {req[s].key}
    /\ ret' = [to |-> s, fn |-> req[s].fn, days |-> req[s].days,
                val |-> local[s], src |-> "computed"]
    /\ pc' = [pc EXCEPT ![s] = "idle"]
    /\ req' = [req EXCEPT ![s] = None]
    /\ local' = [local EXCEPT ![s] = None]
    /\ UNCHANGED <<now, telemetry, calls>>
    /\ UNCHANGED notCacheVars

\* The "Refresh Data" button of the sidebar: st.cache_data.clear(), then
\* st.rerun().  The button is handled while the session's script renders the
\* sidebar, outside any cached call of that session.
Refresh(s) ==
    /\ pc[s] = "idle"
    /\ cache' = ClearedCache(cache)
    /\ sinceRefresh' = {}
    /\ UNCHANGED <<now, telemetry, pc, req, local, ret, calls>>
    /\ UNCHANGED notCacheVars

\* Time passes.
Tick ==
    /\ \E d \in ClockSteps :
        /\ now + d <= MaxClock
        /\ now' = now + d
    /\ UNCHANGED <<cache, telemetry, pc, req, local, ret, sinceRefresh, calls>>
    /\ UNCHANGED notCacheVars

\* The warehouse records new usage: the same query now returns other rows.
Ingest ==
    /\ \E v \in {x \in DataVersions : x > telemetry} : telemetry' = v
    /\ UNCHANGED <<cache, now, pc, req, local, ret, sinceRefresh, calls>>
    /\ UNCHANGED notCacheVars

Next ==
    \/ \E s \in Sessions, fn \in Fns, days \in DaysArgs : Lookup(s, fn, days)
    \/ \E s \in Sessions : Store(s)
    \/ \E s \in Sessions : Refresh(s)
    \/ Tick
    \/ Ingest

AnomalyIdle ==
    /\ credit_cost = 25
    /\ window = << >>
    /\ out = None

\* No recommendations query has run; the warehouse has no history yet.
AdvisorIdle ==
    /\ wh_size = "X-Small"
    /\ wh_queries = << >>
    /\ wh_loads = << >>
    /\ advice = None

\* No query-insights query has run; QUERY_HISTORY has no row in the window.
ClassifierIdle ==
    /\ qrecords = << >>
    /\ insights = None

\* No forecast section has run; the metering history is empty.
ForecastIdle ==
    /\ usage = << >>
    /\ forecast = None

\* No attribution tab has run; no warehouse or user has a cost yet.
AttributionIdle ==
    /\ cost_groups = << >>
    /\ attribution = None

\* No cached call that can fail has been made.
FailureIdle == outcome = None

\* A new browser session: st.session_state is empty, no widget was touched.
SessionIdle ==
    /\ session_state = << >>
    /\ widget_input = << >>

OtherIdle == AttributionIdle /\ FailureIdle /\ SessionIdle

\* Every part but the cache and the anomaly queries is at rest.
EngineIdle == AdvisorIdle /\ ClassifierIdle /\ ForecastIdle /\ OtherIdle

Init == CacheInit /\ AnomalyIdle /\ EngineIdle

Spec == Init /\ [][Next]_vars

-----------------------------------------------------------------------------
(* Part 2: the cost anomaly queries                                        *)
(*                                                                         *)
(* window[i] is SUM(CREDITS_USED) of day i of the look-back window, day 1  *)
(* the oldest; COST_DATE is modelled by the day number i.  Money is in     *)
(* tenths of a dollar, the step of the sidebar's credit cost input.        *)
(* Snowflake's arithmetic is modelled exactly: a z-score is carried as its *)
(* square, the fraction num/den, so that "z > 3" is num > 9 * den.         *)

\* Daily credit totals: an ordinary day, and three levels of unusual days,
\* each of which occurs on at most one day of a window.
UsualCredits == {100}
UnusualCredits == {190, 280, 1000}

\* The window holds at most MaxDays days.
MaxDays == 11

\* st.session_state.credit_cost: 0.0, 1.0 and the default 2.5 dollars.
CreditCosts == {0, 10, 25}

\* Config.DEFAULT_CREDIT_COST of the single-file app, 2.5 dollars.
DEFAULT_CREDIT_COST == 25

\* SQL NULL, and the error a query ends with.
Null == [null |-> TRUE]
Failure == [failure |-> TRUE]

RECURSIVE SumSeq(_)
SumSeq(s) == IF s = << >> THEN 0 ELSE Head(s) + SumSeq(Tail(s))

Abs(x) == IF x < 0 THEN -x ELSE x

RECURSIVE Gcd(_, _)
Gcd(a, b) == IF b = 0 THEN a ELSE Gcd(b, a % b)

RECURSIVE GcdSeq(_)
GcdSeq(s) == IF s = << >> THEN 0 ELSE Gcd(Abs(Head(s)), GcdSeq(Tail(s)))

\* daily_costs: SUM(CREDITS_USED) * {credit_cost} per COST_DATE.
RECURSIVE DailyCosts(_, _)
DailyCosts(w, cc) ==
    IF w = << >> THEN << >>
    ELSE <<Head(w) * cc>> \o DailyCosts(Tail(w), cc)

\* n * (DAILY_COST - AVG(DAILY_COST)) for each day: n * c[i] - SUM(c).
RECURSIVE DeviationsFrom(_, _, _)
DeviationsFrom(costs, n, total) ==
    IF costs = << >> THEN << >>
    ELSE <<n * Head(costs) - total>> \o DeviationsFrom(Tail(costs), n, total)

Deviations(costs) == DeviationsFrom(costs, Len(costs), SumSeq(costs))

RECURSIVE DivideAll(_, _)
DivideAll(d, u) ==
    IF d = << >> THEN << >>
    ELSE <<Head(d) \div u>> \o DivideAll(Tail(d), u)

\* The deviations in units of their common factor (1 when all are zero):
\* the factor cancels in every z-score.
UnitDeviations(costs) ==
    LET d == Deviations(costs)
        g == GcdSeq(d)
    IN DivideAll(d, IF g = 0 THEN 1 ELSE g)

RECURSIVE SumSquares(_)
SumSquares(e) ==
    IF e = << >> THEN 0 ELSE Head(e) * Head(e) + SumSquares(Tail(e))

\* AVG(DAILY_COST) as the fraction sum/n; NULL over no rows.
Avg(costs) ==
    IF Len(costs) = 0 THEN Null
    ELSE [null |-> FALSE, sum |-> SumSeq(costs), n |-> Len(costs)]

\* Variant: the standard deviation of fewer than two rows is an error.
StdDev_RequiresTwoRows(costs) ==
    IF Len(costs) < 2
    THEN Failure
    ELSE [null |-> FALSE, sumsq |-> SumSquares(UnitDeviations(costs)),
          n |-> Len(costs)]

\* STDDEV(DAILY_COST), the sample standard deviation: NULL on fewer than two
\* rows, else sqrt(sumsq / (n * n * (n - 1))) in units of the common factor.
StdDev(costs) ==
    IF Len(costs) < 2
    THEN Null
    ELSE [null |-> FALSE, sumsq |-> SumSquares(UnitDeviations(costs)),
          n |-> Len(costs)]

\* The cost_stats CTE: one row of aggregates over daily_costs, with the unit
\* deviations of the days beside it.
CostStats(costs) ==
    [avg |-> Avg(costs), stddev |-> StdDev(costs), e |-> UnitDeviations(costs)]

\* Variant: the divisor is used as it is.
NullIfZero_Missing(sd) == sd

\* NULLIF(STDDEV_COST, 0)
NullIfZero(sd) ==
    IF sd # Null /\ sd # Failure /\ sd.sumsq = 0 THEN Null ELSE sd

\* Variant: day i is measured against the mean and the deviation of the
\* other days.  With e the unit deviations from the whole-window mean and n
\* days, the square of that quotient is
\*   e[i]^2 * (n - 2) * n^2 / ((n - 1) * ((n - 1) * SUM(e^2) - n * e[i]^2)).
ZScore_LeaveOneOut(s, i) ==
    LET sd == s.stddev IN
    IF sd = Null \/ sd.n < 3 THEN Null
    ELSE LET den == (sd.n - 1) * ((sd.n - 1) * sd.sumsq
                                    - sd.n * s.e[i] * s.e[i])
         IN  IF den = 0 THEN Null
             ELSE [null |-> FALSE,
                   neg |-> s.e[i] < 0,
                   num |-> s.e[i] * s.e[i] * (sd.n - 2) * sd.n * sd.n,
                   den |-> den]

\* (c.DAILY_COST - s.AVG_COST) / NULLIF(s.STDDEV_COST, 0) for day i: NULL
\* when the divisor is NULL, an error on a zero divisor, else the quotient,
\* kept as its sign and its square num/den.
ZScore(s, i) ==
    LET sd == NullIfZero(s.stddev) IN
    IF sd = Failure THEN Failure
    ELSE IF sd = Null THEN Null
    ELSE IF sd.sumsq = 0 THEN Failure
    ELSE [null |-> FALSE,
          neg |-> s.e[i] < 0,
          num |-> s.e[i] * s.e[i] * (sd.n - 1),
          den |-> sd.sumsq]

\* ABS(z)
AbsZ(z) == IF z = Null \/ z = Failure THEN z ELSE [z EXCEPT !.neg = FALSE]

\* ABS(z) > k; a comparison with NULL is not true.
ZExceeds(z, k) == z # Null /\ z # Failure /\ z.num > k * k * z.den

\* Variant: everything above 2 is CRITICAL.
Severity_NoWarningBand(z) ==
    IF ZExceeds(z, 2) THEN "CRITICAL" ELSE "NORMAL"

\* Variant: the thresholds are inclusive.
Severity_Inclusive(z) ==
    IF z # Null /\ z # Failure /\ z.num >= 9 * z.den THEN "CRITICAL"
    ELSE IF z # Null /\ z # Failure /\ z.num >= 4 * z.den THEN "WARNING"
    ELSE "NORMAL"

\* CASE WHEN ABS(z) > 3 THEN 'CRITICAL' WHEN ABS(z) > 2 THEN 'WARNING'
\* ELSE 'NORMAL' END
Severity(z) ==
    IF ZExceeds(z, 3) THEN "CRITICAL"
    ELSE IF ZExceeds(z, 2) THEN "WARNING"
    ELSE "NORMAL"

\* Variant: only the days above 3 are marked.
Status_Above3(z) == IF ZExceeds(z, 3) THEN "ANOMALY" ELSE "NORMAL"

\* CASE WHEN ABS(z) > 2 THEN 'ANOMALY' ELSE 'NORMAL' END
Status(z) == IF ZExceeds(z, 2) THEN "ANOMALY" ELSE "NORMAL"

\* Variant: oldest day first.
DayOfRow_Ascending(n, k) == k

\* ORDER BY c.COST_DATE DESC: the day shown in row k of n.
DayOfRow(n, k) == n + 1 - k

\* A query fails as a whole when an expression of one of its rows does.
Fails(s, n) == \E i \in 1..n : ZScore(s, i) = Failure

\* The two outcomes of session.sql(query).to_pandas(): an exception, or rows.
Raised == [error |-> TRUE, rows |-> << >>]

Returned(rows) == [error |-> FALSE, rows |-> rows]

\* Variant: a row carries the mean and the deviation of the other days.
AnomalyRow_LeaveOneOut(costs, s, i) ==
    LET z == ZScore(s, i)
        others == SubSeq(costs, 1, i - 1) \o SubSeq(costs, i + 1, Len(costs))
    IN
    [COST_DATE |-> i,
     DAILY_COST |-> costs[i],
     AVG_COST |-> Avg(others),
     STDDEV_COST |-> StdDev(others),
     Z_SCORE |-> AbsZ(z),
     SEVERITY |-> Severity(z)]

\* One row of the Cost Management page's anomaly_query.
AnomalyRow(costs, s, i) ==
    LET z == ZScore(s, i) IN
    [COST_DATE |-> i,
     DAILY_COST |-> costs[i],
     AVG_COST |-> s.avg,
     STDDEV_COST |-> s.stddev,
     Z_SCORE |-> AbsZ(z),
     SEVERITY |-> Severity(z)]

\* The anomaly_query of the Cost Management page.
AnomalyQuery(costs) ==
    LET s == CostStats(costs) IN
    IF Fails(s, Len(costs)) THEN Raised
    ELSE Returned([k \in 1..Len(costs) |->
                      AnomalyRow(costs, s, DayOfRow(Len(costs), k))])

\* WHERE ABS(z) > 2
RECURSIVE KeepAnomalies(_)
KeepAnomalies(rows) ==
    IF rows = << >> THEN << >>
    ELSE IF ZExceeds(Head(rows).Z_SCORE, 2)
         THEN <<Head(rows)>> \o KeepAnomalies(Tail(rows))
         ELSE KeepAnomalies(Tail(rows))

\* The cost_anomalies_query of the home page: the days with ABS(z) > 2.
CostAnomaliesQuery(costs) ==
    LET s == CostStats(costs) IN
    IF Fails(s, Len(costs)) THEN Raised
    ELSE Returned(KeepAnomalies(
        [k \in 1..Len(costs) |->
            LET i == DayOfRow(Len(costs), k) IN
            [COST_DATE |-> i,
             DAILY_COST |-> costs[i],
             AVG_DAILY_COST |-> s.avg,
             Z_SCORE |-> AbsZ(ZScore(s, i))]]))

\* One row of get_cost_anomalies.
StatusRow(costs, s, i) ==
    LET z == ZScore(s, i) IN
    [COST_DATE |-> i,
     DAILY_COST |-> costs[i],
     AVG_DAILY_COST |-> s.avg,
     STDDEV_DAILY_COST |-> s.stddev,
     Z_SCORE |-> z,
     STATUS |-> Status(z)]

\* get_cost_anomalies of the single-file app.
GetCostAnomalies(costs) ==
    LET s == CostStats(costs) IN
    IF Fails(s, Len(costs)) THEN Raised
    ELSE Returned([k \in 1..Len(costs) |->
                      StatusRow(costs, s, DayOfRow(Len(costs), k))])

\* What a page holds after session.sql(query).to_pandas() inside its try
\* block: the rows, or nothing when the query raised.
RunQuery(page, result) ==
    [page |-> page, error |-> result.error, rows |-> result.rows]

AnomalyInit ==
    /\ CacheInit
    /\ credit_cost = 25
    /\ window = << >>
    /\ out = None
    /\ EngineIdle

\* METERING_HISTORY gains a day; an unusual level is a one-off.  A result
\* on screen belongs to the script run that produced it; the next run
\* starts without one.
AppendDay(v) ==
    /\ Len(window) < MaxDays
    /\ v \in UnusualCredits => \A i \in 1..Len(window) : window[i] # v
    /\ window' = Append(window, v)
    /\ out' = None
    /\ UNCHANGED <<credit_cost, notAnomalyVars>>

\* The user sets the credit cost in the sidebar; the script reruns.
SetCreditCost(c) ==
    /\ c # credit_cost
    /\ credit_cost' = c
    /\ out' = None
    /\ UNCHANGED <<window, notAnomalyVars>>

\* The Cost Management page runs its anomaly tab.
RunCostPage ==
    /\ out' = RunQuery("cost",
                       AnomalyQuery(DailyCosts(window, credit_cost)))
    /\ UNCHANGED <<credit_cost, window, notAnomalyVars>>

\* The home page runs its cost alerts.
RunHomePage ==
    /\ out' = RunQuery("home",
                       CostAnomaliesQuery(DailyCosts(window, credit_cost)))
    /\ UNCHANGED <<credit_cost, window, notAnomalyVars>>

\* The single-file app calls queries.get_cost_anomalies(days).
RunSingleFileApp ==
    /\ out' = RunQuery("app",
                       GetCostAnomalies(DailyCosts(window, DEFAULT_CREDIT_COST)))
    /\ UNCHANGED <<credit_cost, window, notAnomalyVars>>

AnomalyNext ==
    \/ \E v \in UsualCredits \cup UnusualCredits : AppendDay(v)
    \/ \E c \in CreditCosts : SetCreditCost(c)
    \/ RunCostPage
    \/ RunHomePage
    \/ RunSingleFileApp

SpecAnomaly == AnomalyInit /\ [][AnomalyNext]_vars

-----------------------------------------------------------------------------
(* Claims about the result cache (checked under Spec)                      *)

Other(s) == CHOOSE t \in Sessions : t # s

\* C1: a call made less than ttl seconds after the result stored for its key
\* (function, days) returns exactly that stored value and does not run the
\* wrapped method: the call is not in flight afterwards and the store is as
\* it was.
C1_HitWithinTtl ==
    [][\A s \in Sessions, fn \in Fns, days \in DaysArgs :
        (/\ Lookup(s, fn, days)
         /\ <<fn, days>> \in DOMAIN cache
         /\ now - cache[<<fn, days>>].ts < CACHE_TTL)
        => /\ ret' = [to |-> s, fn |-> fn, days |-> days,
                      val |-> cache[<<fn, days>>].val, src |-> "cache"]
           /\ pc'[s] = "idle"
           /\ local' = local
           /\ cache' = cache]_vars

\* A stored value was served half an hour after it was computed, although
\* the telemetry has changed since and a recomputation would differ.
C1_Witness ==
    /\ ret # None
    /\ ret.src = "cache"
    /\ <<ret.fn, ret.days>> \in DOMAIN cache
    /\ cache[<<ret.fn, ret.days>>].val = ret.val
    /\ now - cache[<<ret.fn, ret.days>>].ts = 1800
    /\ ret.val.ver # telemetry

\* C2: a call whose key has no entry, or an entry at least ttl seconds old,
\* runs the wrapped method on its arguments against the current telemetry
\* and returns nothing from the store; when the result is back it is stored
\* under the key with the time of the write and is what the call returns.
C2_MissOrExpiryRecomputes ==
    [][\A s \in Sessions :
        /\ \A fn \in Fns, days \in DaysArgs :
            (/\ Lookup(s, fn, days)
             /\ \/ <<fn, days>> \notin DOMAIN cache
                \/ now - cache[<<fn, days>>].ts >= CACHE_TTL)
            => /\ pc'[s] = "running"
               /\ req'[s].fn = fn /\ req'[s].days = days
               /\ local'[s] = [fn |-> fn, days |-> days, ver |-> telemetry]
               /\ ret' = ret
        /\ Store(s)
            => /\ <<req[s].fn, req[s].days>> \in DOMAIN cache'
               /\ cache'[<<req[s].fn, req[s].days>>].val = local[s]
               /\ cache'[<<req[s].fn, req[s].days>>].ts = now
               /\ ret' = [to |-> s, fn |-> req[s].fn, days |-> req[s].days,
                          val |-> local[s], src |-> "computed"]]_vars

\* Session s1 made both calls so far: the first was computed and stored, the
\* second is recomputing the same key while the first's entry, now at least
\* ttl seconds old, is still in the store.
C2_Witness ==
    /\ calls = 2
    /\ pc["s2"] = "idle"
    /\ pc["s1"] = "running"
    /\ ret # None
    /\ ret.to = "s1"
    /\ ret.src = "computed"
    /\ req["s1"].key = <<ret.fn, ret.days>>
    /\ req["s1"].key \in DOMAIN cache
    /\ now - cache[req["s1"].key].ts >= CACHE_TTL

C4_ConcurrentMisses ==
    [][\A s \in Sessions :
        (/\ Store(s)
         /\ pc[Other(s)] = "running"
         /\ req[Other(s)].key = req[s].key)
        => LET k == <<req[s].fn, req[s].days>> IN
           /\ local[s].fn = req[s].fn /\ local[s].days = req[s].days
           /\ ret'.to = s /\ ret'.val = local[s]
           /\ DOMAIN cache' = DOMAIN cache \cup {k}
           /\ cache'[k].val = local[s]
           /\ cache'[k].ts = now
           /\ \A x \in DOMAIN cache \ {k} : cache'[x] = cache[x]
           /\ pc'[Other(s)] = "running"
           /\ local'[Other(s)] = local[Other(s)]
           /\ req'[Other(s)] = req[Other(s)]]_vars

\* Both sessions missed on the same key and both ran the wrapped method,
\* with different results; s2 has stored and returned its own, s1's call is
\* still in flight.
C4_Witness ==
    /\ calls = 2
    /\ pc["s1"] = "running"
    /\ pc["s2"] = "idle"
    /\ ret # None
    /\ ret.to = "s2"
    /\ ret.src = "computed"
    /\ req["s1"].key = <<ret.fn, ret.days>>
    /\ local["s1"] # ret.val
    /\ req["s1"].key \in DOMAIN cache
    /\ cache[req["s1"].key].val = ret.val
    /\ cache[req["s1"].key].by = "s2"

\* C5: entries are keyed by (function, days) alone, and the value held under
\* a key, like every value a call returns, was produced by that call's
\* function for that call's days.
C5_KeyIsFunctionAndArgs ==
    /\ DOMAIN cache \subseteq Fns \X DaysArgs
    /\ \A k \in DOMAIN cache :
        cache[k].val.fn = k[1] /\ cache[k].val.days = k[2]
    /\ ret # None => ret.val.fn = ret.fn /\ ret.val.days = ret.days

\* Session s2 was served from the store the entry that s1 wrote, while
\* entries of another function and of another days value exist beside it.
C5_Witness ==
    /\ ret # None
    /\ ret.to = "s2"
    /\ ret.src = "cache"
    /\ <<ret.fn, ret.days>> \in DOMAIN cache
    /\ cache[<<ret.fn, ret.days>>].by = "s1"
    /\ cache[<<ret.fn, ret.days>>].val = ret.val
    /\ Cardinality(DOMAIN cache) >= 2

(***************************************************************************)
(* Claims about the anomaly queries.  A result on screen is read together  *)
(* with the window and the credit cost it was computed from.               *)
(***************************************************************************)

\* The daily costs the query on screen aggregated.
ShownCosts ==
    DailyCosts(window,
               IF out.page = "app" THEN DEFAULT_CREDIT_COST ELSE credit_cost)

OnScreen(page) == out # None /\ out.page = page /\ ~out.error

AllEqual(costs) == \A i, j \in 1..Len(costs) : costs[i] = costs[j]

\* The z-score of day i of the costs, as the queries compute it.
ZOfDay(costs, i) == AbsZ(ZScore(CostStats(costs), i))

\* C6: every row of the Cost Management page's anomaly query carries the
\* z-score |daily_cost - mean| / stddev of its day and is CRITICAL exactly
\* when z > 3, WARNING exactly when 2 < z <= 3 and NORMAL otherwise; so a
\* day with z exactly 3 is WARNING and a day with z exactly 2 is NORMAL.
C6_SeverityThresholds ==
    OnScreen("cost") =>
        \A k \in 1..Len(out.rows) :
            LET r == out.rows[k]
                z == r.Z_SCORE
            IN /\ z = ZOfDay(ShownCosts, r.COST_DATE)
               /\ (r.SEVERITY = "CRITICAL") = ZExceeds(z, 3)
               /\ (r.SEVERITY = "WARNING") =
                      (ZExceeds(z, 2) /\ ~ZExceeds(z, 3))
               /\ (r.SEVERITY = "NORMAL") = ~ZExceeds(z, 2)

\* A day whose z-score is exactly 3 is on screen, as a WARNING.
C6_Witness ==
    /\ OnScreen("cost")
    /\ \E k \in 1..Len(out.rows) :
          /\ out.rows[k].Z_SCORE # Null
          /\ out.rows[k].Z_SCORE.num = 9 * out.rows[k].Z_SCORE.den
          /\ out.rows[k].SEVERITY = "WARNING"

\* Nine days of $100 and a tenth day of $1000, in tenths of a dollar.
TenDayWindow ==
    <<1000, 1000, 1000, 1000, 1000, 1000, 1000, 1000, 1000, 10000>>

\* C7 as stated: on the window [100 x 9, 1000] day 10 is CRITICAL and the
\* other nine days are NORMAL.
C7_Day10Critical ==
    (OnScreen("cost") /\ ShownCosts = TenDayWindow) =>
        \A k \in 1..Len(out.rows) :
            out.rows[k].SEVERITY =
                IF out.rows[k].COST_DATE = 10 THEN "CRITICAL" ELSE "NORMAL"

\* C7: on the window [100 x 9, 1000] day 10 is a WARNING (its z-score is
\* sqrt(81/10), about 2.85, under the sample standard deviation) and the
\* other nine days are NORMAL; the home page lists day 10 alone.
C7_Day10Warning ==
    /\ (OnScreen("cost") /\ ShownCosts = TenDayWindow) =>
          /\ Len(out.rows) = 10
          /\ \A k \in 1..Len(out.rows) :
                out.rows[k].SEVERITY =
                    IF out.rows[k].COST_DATE = 10 THEN "WARNING"
                    ELSE "NORMAL"
    /\ (OnScreen("home") /\ ShownCosts = TenDayWindow) =>
          /\ Len(out.rows) = 1
          /\ out.rows[1].COST_DATE = 10

\* The ten-day window is on the Cost Management page.
C7_Witness ==
    /\ OnScreen("cost")
    /\ ShownCosts = TenDayWindow
    /\ out.rows[1].COST_DATE = 10
    /\ out.rows[1].Z_SCORE.num * 10 = out.rows[1].Z_SCORE.den * 81
    /\ out.rows[1].SEVERITY = "WARNING"

C9_FewerThanTwoPoints ==
    (out # None /\ Len(window) < 2) =>
        /\ ~out.error
        /\ Len(out.rows) <= Len(window)
        /\ out.page = "cost" =>
              \A k \in 1..Len(out.rows) : out.rows[k].SEVERITY = "NORMAL"
        /\ out.page = "home" => out.rows = << >>
        /\ out.page = "app" =>
              \A k \in 1..Len(out.rows) : out.rows[k].STATUS = "NORMAL"

\* A single day is on the Cost Management page, as NORMAL.
C9_Witness ==
    /\ OnScreen("cost")
    /\ Len(window) = 1
    /\ Len(out.rows) = 1
    /\ out.rows[1].STDDEV_COST = Null
    /\ out.rows[1].SEVERITY = "NORMAL"

\* C10 as stated: the output has one point per day of the window, in the
\* order of the window.
C10_SameOrderAsInput ==
    (out # None /\ ~out.error) =>
        /\ Len(out.rows) = Len(window)
        /\ \A k \in 1..Len(out.rows) :
              /\ out.rows[k].COST_DATE = k
              /\ out.rows[k].DAILY_COST = ShownCosts[k]

\* The days the home page lists: those with z > 2.
AnomalousDays(costs) ==
    {i \in 1..Len(costs) : ZExceeds(ZOfDay(costs, i), 2)}

\* C10: the Cost Management page and the single-file app show exactly one
\* row per day of the window, newest day first: row k carries the date and
\* the cost of day n + 1 - k.  The home page shows only the days with
\* z > 2, newest first, each with its own date and cost.
C10_OneRowPerDayNewestFirst ==
    (out # None /\ ~out.error) =>
        /\ \A k \in 1..Len(out.rows) :
              out.rows[k].DAILY_COST = ShownCosts[out.rows[k].COST_DATE]
        /\ \A k \in 1..(Len(out.rows) - 1) :
              out.rows[k].COST_DATE > out.rows[k + 1].COST_DATE
        /\ out.page \in {"cost", "app"} =>
              /\ Len(out.rows) = Len(window)
              /\ \A k \in 1..Len(out.rows) :
                    out.rows[k].COST_DATE = Len(window) + 1 - k
        /\ out.page = "home" =>
              {out.rows[k].COST_DATE : k \in 1..Len(out.rows)}
                  = AnomalousDays(ShownCosts)

\* A window whose last day differs from its first is on the Cost Management
\* page, last day in the first row.
C10_Witness ==
    /\ OnScreen("cost")
    /\ Len(window) >= 3
    /\ window[1] # window[Len(window)]
    /\ Len(out.rows) = Len(window)
    /\ out.rows[1].COST_DATE = Len(window)
    /\ out.rows[1].DAILY_COST = window[Len(window)] * credit_cost
    /\ credit_cost > 0

\* The baseline a row of the result on screen carries: the mean, and the
\* standard deviation where the query selects it.
BaselineMean(r) == IF out.page = "cost" THEN r.AVG_COST ELSE r.AVG_DAILY_COST

BaselineStdDev(r) ==
    IF out.page = "cost" THEN r.STDDEV_COST ELSE r.STDDEV_DAILY_COST

\* C24: every row of one anomaly result carries the same mean and the same
\* standard deviation, those of all the daily costs of the window, the
\* row's own day included.
C24_OneBaselinePerInvocation ==
    (out # None /\ ~out.error) =>
        \A k \in 1..Len(out.rows) :
            LET r == out.rows[k] IN
            /\ BaselineMean(r) = BaselineMean(out.rows[1])
            /\ BaselineMean(r) =
                  [null |-> FALSE, sum |-> SumSeq(ShownCosts),
                   n |-> Len(window)]
            /\ out.page # "home" =>
                  /\ BaselineStdDev(r) = BaselineStdDev(out.rows[1])
                  /\ BaselineStdDev(r) = StdDev(ShownCosts)

\* The Cost Management page shows four days, one of them unusual, with a
\* non-zero deviation: the unusual day's row carries the same baseline as
\* the others.
C24_Witness ==
    /\ OnScreen("cost")
    /\ Len(out.rows) = 4
    /\ window = <<100, 100, 100, 280>>
    /\ credit_cost = 10
    /\ out.rows[1].AVG_COST = [null |-> FALSE, sum |-> 5800, n |-> 4]
    /\ out.rows[4].AVG_COST = out.rows[1].AVG_COST
    /\ out.rows[1].STDDEV_COST # Null
    /\ out.rows[1].SEVERITY = "NORMAL"

\* A row on screen marks its day with the label.  The home page lists the
\* days above 2 without a label: each of them counts as an ANOMALY, and as
\* CRITICAL when its z-score is above 3, as WARNING otherwise.
Flagged(label) ==
    \E k \in 1..Len(out.rows) :
        IF out.page = "cost" THEN out.rows[k].SEVERITY = label
        ELSE IF out.page = "app" THEN out.rows[k].STATUS = label
        ELSE \/ label = "ANOMALY"
             \/ label = "CRITICAL" /\ ZExceeds(out.rows[k].Z_SCORE, 3)
             \/ label = "WARNING" /\ ~ZExceeds(out.rows[k].Z_SCORE, 3)

\* C26: no result over at most 10 days has a CRITICAL row, and no result
\* over at most 2 days has a WARNING, CRITICAL or ANOMALY row or a home
\* page alert, whatever the daily costs are.
C26_SmallWindowsStayBelowThreshold ==
    (out # None /\ ~out.error) =>
        /\ Len(window) <= 10 => ~Flagged("CRITICAL")
        /\ Len(window) <= 2 =>
              /\ ~Flagged("WARNING")
              /\ ~Flagged("CRITICAL")
              /\ ~Flagged("ANOMALY")

\* With 11 days, ten of them alike, the odd day is CRITICAL on the Cost
\* Management page.
C26_Witness ==
    /\ OnScreen("cost")
    /\ Len(window) = 11
    /\ \E k \in 1..Len(out.rows) :
          /\ out.rows[k].SEVERITY = "CRITICAL"
          /\ ZExceeds(out.rows[k].Z_SCORE, 3)
          /\ window[out.rows[k].COST_DATE] = 1000

\* The days a result marks as anomalous: every row of the home page's
\* list, the WARNING and CRITICAL rows of the Cost Management page, the
\* ANOMALY rows of the single-file app.
MarkedDays(page, rows) ==
    {rows[k].COST_DATE :
        k \in {j \in 1..Len(rows) :
                 CASE page = "home" -> TRUE
                   [] page = "cost" ->
                        rows[j].SEVERITY \in {"WARNING", "CRITICAL"}
                   [] page = "app" -> rows[j].STATUS = "ANOMALY"}}

\* What each implementation marks on the window as it is, at the credit
\* cost it uses.
HomeDays ==
    MarkedDays("home", CostAnomaliesQuery(DailyCosts(window, credit_cost)).rows)

CostPageDays ==
    MarkedDays("cost", AnomalyQuery(DailyCosts(window, credit_cost)).rows)

AppDays ==
    MarkedDays("app",
               GetCostAnomalies(DailyCosts(window, DEFAULT_CREDIT_COST)).rows)

\* The days the result on screen marks.
ScreenDays == MarkedDays(out.page, out.rows)

\* The implementation on screen marks what it marks when run again.
ScreenIsCurrent ==
    ScreenDays = CASE out.page = "home" -> HomeDays
                   [] out.page = "cost" -> CostPageDays
                   [] out.page = "app" -> AppDays

\* C29 as stated: on the same window the home page, the Cost Management
\* page and the single-file app mark the same days, at every credit cost,
\* 0 included.
C29_ImplementationsAgree ==
    (out # None /\ ~out.error) =>
        /\ ScreenIsCurrent
        /\ HomeDays = CostPageDays
        /\ CostPageDays = AppDays

\* C29, amended: on the same window the three implementations mark the
\* same days whenever the credit cost of the session is above 0.  At a
\* credit cost of 0 the home page and the Cost Management page mark no day
\* (every daily cost is 0), while the single-file app, which prices a
\* credit at its fixed 2.5 dollars, marks the same days as at any other
\* credit cost.
C29_AgreeAtPositiveCost ==
    (out # None /\ ~out.error) =>
        LET home == HomeDays
            cost == CostPageDays
            app == AppDays
        IN  /\ ScreenDays = CASE out.page = "home" -> home
                              [] out.page = "cost" -> cost
                              [] out.page = "app" -> app
            /\ home = cost
            /\ credit_cost > 0 => cost = app
            /\ credit_cost = 0 =>
                  /\ cost = {}
                  /\ app = MarkedDays("cost",
                               AnomalyQuery(DailyCosts(window,
                                   DEFAULT_CREDIT_COST)).rows)

\* At a credit cost of 1 dollar the single-file app shows seven days and
\* marks the one unusual day, which the two pages mark as well.
C29_Witness ==
    /\ OnScreen("app")
    /\ credit_cost = 10
    /\ Len(window) = 7
    /\ ScreenDays # {}
    /\ HomeDays = ScreenDays
    /\ CostPageDays = ScreenDays

-----------------------------------------------------------------------------
(* Part 3: the warehouse recommendations (specification SpecAdvisor)       *)
(*                                                                         *)
(* get_warehouse_recommendations exists twice: in utils.py (the pages) and *)
(* in streamlit_app.py (the single-file app).  Both aggregate one row per  *)
(* warehouse and label it with a CASE whose first true branch wins.  One   *)
(* warehouse is followed.  Averages are kept as the fraction sum/n.        *)

\* Snowflake's warehouse sizes, smallest first, as ACCOUNT_USAGE spells them.
SizeScale ==
    <<"X-Small", "Small", "Medium", "Large", "X-Large",
      "2X-Large", "3X-Large", "4X-Large", "5X-Large", "6X-Large">>

\* The same sizes in capitals, the spelling utils.py compares with.
SizeScaleUpper ==
    <<"X-SMALL", "SMALL", "MEDIUM", "LARGE", "X-LARGE",
      "2X-LARGE", "3X-LARGE", "4X-LARGE", "5X-LARGE", "6X-LARGE">>

\* The values WAREHOUSE_SIZE can hold: the repository fixes no spelling.
SizeLabels ==
    {SizeScale[i] : i \in 1..Len(SizeScale)}
        \cup {SizeScaleUpper[i] : i \in 1..Len(SizeScaleUpper)}

\* The position of a label on the scale, whatever its spelling.
SizeClass(label) ==
    CHOOSE i \in 1..Len(SizeScale) :
        label = SizeScale[i] \/ label = SizeScaleUpper[i]

\* QUEUED_OVERLOAD_TIME of a query, in milliseconds; Null when not recorded.
QueueTimes == {4000, 6000, 10000}

\* AVG_RUNNING of a load-history interval, in tenths of a query.
LoadLevels == {0, 10, 20}

\* At most MaxQueries queries and MaxLoadRows load intervals in the window.
MaxQueries == 2
MaxLoadRows == 2

\* A column value that is present.
Value(x) == [null |-> FALSE, v |-> x]

\* The non-NULL values of a column.
RECURSIVE NonNull(_)
NonNull(s) ==
    IF s = << >> THEN << >>
    ELSE IF Head(s).null THEN NonNull(Tail(s))
         ELSE <<Head(s).v>> \o NonNull(Tail(s))

\* AVG(x): NULLs are skipped; NULL when no value is left.
AvgOf(s) ==
    LET v == NonNull(s) IN
    IF v = << >> THEN Null
    ELSE [null |-> FALSE, sum |-> SumSeq(v), n |-> Len(v)]

\* The warehouse_stats CTE: the warehouse LEFT JOINed with its queries and
\* its load history.  The join repeats each row of one table once per row
\* of the others, which leaves the averages and the distinct count as they
\* are.  The queue average is in milliseconds, the load in tenths.
WarehouseStats(size, queries, loads) ==
    [WAREHOUSE_SIZE |-> size,
     QUERY_COUNT |-> Len(queries),
     AVG_QUEUE_TIME |-> AvgOf(queries),
     AVG_CONCURRENT_QUERIES |-> AvgOf(loads)]

\* AVG_QUEUE_TIME_SEC > 5, with AVG_QUEUE_TIME_SEC = AVG(...)/1000
QueueAboveFive(s) ==
    s.AVG_QUEUE_TIME # Null
        /\ s.AVG_QUEUE_TIME.sum > 5 * 1000 * s.AVG_QUEUE_TIME.n

\* AVG_CONCURRENT_QUERIES < 1
LoadBelowOne(s) ==
    s.AVG_CONCURRENT_QUERIES # Null
        /\ s.AVG_CONCURRENT_QUERIES.sum < 10 * s.AVG_CONCURRENT_QUERIES.n

\* utils.py: WAREHOUSE_SIZE IN ('LARGE', ..., '4X-LARGE')
LargeSizes == {"LARGE", "X-LARGE", "2X-LARGE", "3X-LARGE", "4X-LARGE"}

\* streamlit_app.py: WAREHOUSE_SIZE IN ('Large', ..., '4X-Large')
AppLargeSizes == {"Large", "X-Large", "2X-Large", "3X-Large", "4X-Large"}

\* Variant: a warehouse without load history counts as idle.
NoQueries_OrNoLoad(s) ==
    s.QUERY_COUNT = 0 \/ s.AVG_CONCURRENT_QUERIES = Null

\* QUERY_COUNT = 0
NoQueries(s) == s.QUERY_COUNT = 0

\* Variant: the idle rule is tried first.
Recommendation_IdleFirst(s, large) ==
    IF NoQueries(s) THEN "SUSPEND_OR_DROP"
    ELSE IF QueueAboveFive(s) THEN "UPSIZE"
    ELSE IF LoadBelowOne(s) /\ s.WAREHOUSE_SIZE \in large THEN "DOWNSIZE"
    ELSE "OPTIMAL"

\* CASE WHEN ... 'UPSIZE' WHEN ... 'DOWNSIZE' WHEN ... 'SUSPEND_OR_DROP'
\* ELSE 'OPTIMAL' END AS RECOMMENDATION
Recommendation(s, large) ==
    IF QueueAboveFive(s) THEN "UPSIZE"
    ELSE IF LoadBelowOne(s) /\ s.WAREHOUSE_SIZE \in large THEN "DOWNSIZE"
    ELSE IF NoQueries(s) THEN "SUSPEND_OR_DROP"
    ELSE "OPTIMAL"

\* get_warehouse_recommendations of utils.py: the row of the warehouse.
GetWarehouseRecommendations(size, queries, loads) ==
    LET s == WarehouseStats(size, queries, loads) IN
    [impl |-> "utils", stats |-> s,
     RECOMMENDATION |-> Recommendation(s, LargeSizes)]

\* get_warehouse_recommendations of streamlit_app.py.
AppGetWarehouseRecommendations(size, queries, loads) ==
    LET s == WarehouseStats(size, queries, loads) IN
    [impl |-> "app", stats |-> s,
     RECOMMENDATION |-> Recommendation(s, AppLargeSizes)]

AdvisorInit == CacheInit /\ AnomalyIdle /\ EngineIdle

\* The warehouse is resized.
Resize(label) ==
    /\ label # wh_size
    /\ wh_size' = label
    /\ advice' = None
    /\ UNCHANGED <<wh_queries, wh_loads, notAdvisorVars>>

\* A query runs on the warehouse and enters QUERY_HISTORY.
SubmitQuery(q) ==
    /\ Len(wh_queries) < MaxQueries
    /\ wh_queries' = Append(wh_queries, q)
    /\ advice' = None
    /\ UNCHANGED <<wh_size, wh_loads, notAdvisorVars>>

\* WAREHOUSE_LOAD_HISTORY gains an interval.
RecordLoad(l) ==
    /\ Len(wh_loads) < MaxLoadRows
    /\ wh_loads' = Append(wh_loads, Value(l))
    /\ advice' = None
    /\ UNCHANGED <<wh_size, wh_queries, notAdvisorVars>>

\* A page calls queries.get_warehouse_recommendations(days).
Recommend ==
    /\ advice' = GetWarehouseRecommendations(wh_size, wh_queries, wh_loads)
    /\ UNCHANGED <<wh_size, wh_queries, wh_loads, notAdvisorVars>>

\* The single-file app calls queries.get_warehouse_recommendations(days).
AppRecommend ==
    /\ advice' = AppGetWarehouseRecommendations(wh_size, wh_queries, wh_loads)
    /\ UNCHANGED <<wh_size, wh_queries, wh_loads, notAdvisorVars>>

AdvisorNext ==
    \/ \E label \in SizeLabels : Resize(label)
    \/ \E q \in {Value(x) : x \in QueueTimes} \cup {Null} : SubmitQuery(q)
    \/ \E l \in LoadLevels : RecordLoad(l)
    \/ Recommend
    \/ AppRecommend

SpecAdvisor == AdvisorInit /\ [][AdvisorNext]_vars

(***************************************************************************)
(* Claims about the warehouse recommendations.                             *)
(***************************************************************************)

\* The size list the implementation that produced the advice compares with.
LargeOf(impl) == IF impl = "utils" THEN LargeSizes ELSE AppLargeSizes

\* The scale in the spelling that implementation compares with.
ScaleOf(impl) == IF impl = "utils" THEN SizeScaleUpper ELSE SizeScale

\* Rule 2 of the advisor, for the implementation that produced the advice.
LowLoadAtLargeSize(a) ==
    LoadBelowOne(a.stats) /\ a.stats.WAREHOUSE_SIZE \in LargeOf(a.impl)

C12_DownsizeAtOrAboveLarge ==
    (advice # None
       /\ ~QueueAboveFive(advice.stats)
       /\ LoadBelowOne(advice.stats)
       /\ \E i \in 1..Len(SizeScale) :
             advice.stats.WAREHOUSE_SIZE = ScaleOf(advice.impl)[i]) =>
        ((advice.RECOMMENDATION = "DOWNSIZE")
            = (SizeClass(advice.stats.WAREHOUSE_SIZE) >= SizeClass("Large")))

\* C13: SUSPEND_OR_DROP is advised only for a warehouse without any query
\* in the window; a warehouse with queries but without load history and
\* without recorded queue times is not advised SUSPEND_OR_DROP.
C13_SuspendOnlyWithoutQueries ==
    advice # None =>
        /\ advice.RECOMMENDATION = "SUSPEND_OR_DROP" => Len(wh_queries) = 0
        /\ (Len(wh_queries) > 0
              /\ advice.stats.AVG_CONCURRENT_QUERIES = Null
              /\ advice.stats.AVG_QUEUE_TIME = Null) =>
               advice.RECOMMENDATION = "OPTIMAL"

\* A warehouse with a query, no load history and no queue time is OPTIMAL.
C13_Witness ==
    /\ advice # None
    /\ wh_queries = <<Null>>
    /\ wh_loads = << >>
    /\ advice.stats.QUERY_COUNT = 1
    /\ advice.stats.AVG_CONCURRENT_QUERIES = Null
    /\ advice.RECOMMENDATION = "OPTIMAL"

-----------------------------------------------------------------------------
(* Part 4: the query issue classifier (specification SpecClassifier)       *)
(*                                                                         *)
(* get_query_performance_insights exists twice: utils.py builds an array   *)
(* of issue labels per query and flattens it; streamlit_app.py gives each  *)
(* query one label with a CASE.  Times are in milliseconds as in           *)
(* QUERY_HISTORY; BYTES_SCANNED and BYTES_SPILLED_TO_LOCAL_STORAGE are in   *)
(* MiB, so that 1073741824 bytes is 1024 and 10737418240 bytes is 10240;   *)
(* BYTES_SPILLED_TO_REMOTE_STORAGE is in bytes.  SQL conditions are        *)
(* three-valued: "TRUE", "FALSE" or "NULL".                                *)

\* 1073741824 bytes, in MiB
LocalSpillLimit == 1024

\* 10737418240 bytes, in MiB
ScanLimit == 10240

\* A short successful query that touches little.
QuietQuery ==
    [TOTAL_ELAPSED_TIME |-> 1000,
     COMPILATION_TIME |-> 100,
     QUEUED_OVERLOAD_TIME |-> 0,
     BYTES_SCANNED |-> 0,
     BYTES_SPILLED_TO_LOCAL_STORAGE |-> 0,
     BYTES_SPILLED_TO_REMOTE_STORAGE |-> 0,
     PARTITIONS_SCANNED |-> 1,
     PARTITIONS_TOTAL |-> Value(10),
     EXECUTION_STATUS |-> "SUCCESS"]

\* The rows QUERY_HISTORY can gain.
QueryRecords ==
    {QuietQuery,
     \* 400 s, one byte spilled remotely, failed
     [QuietQuery EXCEPT !.TOTAL_ELAPSED_TIME = 400000,
                        !.BYTES_SPILLED_TO_REMOTE_STORAGE = 1,
                        !.EXECUTION_STATUS = "FAIL"],
     \* 100 s and nothing else
     [QuietQuery EXCEPT !.TOTAL_ELAPSED_TIME = 100000],
     \* no elapsed time and no partitions
     [QuietQuery EXCEPT !.TOTAL_ELAPSED_TIME = 0,
                        !.PARTITIONS_SCANNED = 0,
                        !.PARTITIONS_TOTAL = Value(0)],
     \* the same, failed
     [QuietQuery EXCEPT !.TOTAL_ELAPSED_TIME = 0,
                        !.PARTITIONS_SCANNED = 0,
                        !.PARTITIONS_TOTAL = Value(0),
                        !.EXECUTION_STATUS = "FAIL"],
     \* 190 of 200 partitions scanned
     [QuietQuery EXCEPT !.PARTITIONS_SCANNED = 190,
                        !.PARTITIONS_TOTAL = Value(200)],
     \* more partitions scanned than there are
     [QuietQuery EXCEPT !.PARTITIONS_SCANNED = 200,
                        !.PARTITIONS_TOTAL = Value(150)],
     \* no partition count, queued for 70 s
     [QuietQuery EXCEPT !.QUEUED_OVERLOAD_TIME = 70000,
                        !.PARTITIONS_SCANNED = 190,
                        !.PARTITIONS_TOTAL = Null],
     \* every issue at once
     [QuietQuery EXCEPT !.TOTAL_ELAPSED_TIME = 400000,
                        !.COMPILATION_TIME = 200000,
                        !.QUEUED_OVERLOAD_TIME = 70000,
                        !.BYTES_SCANNED = 20480,
                        !.BYTES_SPILLED_TO_LOCAL_STORAGE = 2048,
                        !.BYTES_SPILLED_TO_REMOTE_STORAGE = 1,
                        !.PARTITIONS_SCANNED = 190,
                        !.PARTITIONS_TOTAL = Value(200),
                        !.EXECUTION_STATUS = "FAIL"],
     \* every measure exactly on its threshold
     [QuietQuery EXCEPT !.TOTAL_ELAPSED_TIME = 300000,
                        !.COMPILATION_TIME = 90000,
                        !.QUEUED_OVERLOAD_TIME = 60000,
                        !.BYTES_SCANNED = 10240,
                        !.BYTES_SPILLED_TO_LOCAL_STORAGE = 1024,
                        !.PARTITIONS_SCANNED = 160,
                        !.PARTITIONS_TOTAL = Value(200)],
     \* half of a short run spent compiling
     [QuietQuery EXCEPT !.COMPILATION_TIME = 500],
     \* a short run that scans and spills a lot
     [QuietQuery EXCEPT !.BYTES_SCANNED = 20480,
                        !.BYTES_SPILLED_TO_LOCAL_STORAGE = 2048]}

\* At most MaxRecords queries in the window.
MaxRecords == 2

\* a > b on two present numbers
Above(a, b) == IF a > b THEN "TRUE" ELSE "FALSE"

\* c1 AND c2
And3(c1, c2) ==
    IF c1 = "FALSE" \/ c2 = "FALSE" THEN "FALSE"
    ELSE IF c1 = "TRUE" /\ c2 = "TRUE" THEN "TRUE"
    ELSE "NULL"

\* c1 OR c2
Or3(c1, c2) ==
    IF c1 = "TRUE" \/ c2 = "TRUE" THEN "TRUE"
    ELSE IF c1 = "FALSE" /\ c2 = "FALSE" THEN "FALSE"
    ELSE "NULL"

\* Variant: the division is not guarded; a zero divisor is an error.
RatioAbove_Unguarded(num, den, p, q) ==
    IF den.null THEN "NULL"
    ELSE IF den.v = 0 THEN "ERROR"
    ELSE Above(num * q, p * den.v)

\* num / NULLIF(den, 0) > p / q, for a divisor that is never negative
RatioAbove(num, den, p, q) ==
    IF den.null \/ den.v = 0 THEN "NULL"
    ELSE Above(num * q, p * den.v)

\* The eight conditions of problematic_queries, in the order of the array.
IsLongRunning(r) == Above(r.TOTAL_ELAPSED_TIME, 300 * 1000)

IsHighQueue(r) == Above(r.QUEUED_OVERLOAD_TIME, 60 * 1000)

IsRemoteSpill(r) == Above(r.BYTES_SPILLED_TO_REMOTE_STORAGE, 0)

IsLocalSpill(r) == Above(r.BYTES_SPILLED_TO_LOCAL_STORAGE, LocalSpillLimit)

IsCompileOverhead(r) ==
    RatioAbove(r.COMPILATION_TIME, Value(r.TOTAL_ELAPSED_TIME), 3, 10)

IsFailed(r) == IF r.EXECUTION_STATUS # "SUCCESS" THEN "TRUE" ELSE "FALSE"

IsExcessiveScan(r) == Above(r.BYTES_SCANNED, ScanLimit)

IsPoorPruning(r) ==
    And3(RatioAbove(r.PARTITIONS_SCANNED, r.PARTITIONS_TOTAL, 8, 10),
         IF r.PARTITIONS_TOTAL.null THEN "NULL"
         ELSE Above(r.PARTITIONS_TOTAL.v, 100))

\* IFF(condition, label, NULL) inside ARRAY_CONSTRUCT_COMPACT: the label
\* when the condition is true, nothing otherwise.
Iff(c, label) == IF c = "TRUE" THEN <<label>> ELSE << >>

\* ARRAY_CONSTRUCT_COMPACT(...) AS ISSUES
Issues(r) ==
    Iff(IsLongRunning(r), "Long running (>5 min)")
        \o Iff(IsHighQueue(r), "High queue time")
        \o Iff(IsRemoteSpill(r), "Remote spilling")
        \o Iff(IsLocalSpill(r), "Excessive local spilling")
        \o Iff(IsCompileOverhead(r), "High compilation overhead")
        \o Iff(IsFailed(r), "Query failed")
        \o Iff(IsExcessiveScan(r), "Excessive data scan (>10GB)")
        \o Iff(IsPoorPruning(r), "Poor partition pruning")

\* The WHERE clause of problematic_queries in utils.py.
IsProblematic(r) ==
    Or3(Above(r.TOTAL_ELAPSED_TIME, 60 * 1000),
    Or3(Above(r.QUEUED_OVERLOAD_TIME, 10 * 1000),
    Or3(IsRemoteSpill(r),
    Or3(IsLocalSpill(r),
    Or3(IsCompileOverhead(r),
    Or3(IsFailed(r),
    Or3(IsExcessiveScan(r), IsPoorPruning(r))))))))

\* The WHERE clause of problematic_queries in streamlit_app.py.
AppIsProblematic(r) ==
    Or3(Above(r.TOTAL_ELAPSED_TIME, 60 * 1000),
    Or3(Above(r.QUEUED_OVERLOAD_TIME, 10 * 1000),
    Or3(IsRemoteSpill(r), IsFailed(r))))

\* CASE ... END AS ISSUE_TYPE of streamlit_app.py: one label per query.
AppIssueType(r) ==
    IF IsLongRunning(r) = "TRUE" THEN "Long running (>5 min)"
    ELSE IF IsHighQueue(r) = "TRUE" THEN "High queue time"
    ELSE IF IsRemoteSpill(r) = "TRUE" THEN "Remote spilling detected"
    ELSE IF IsLocalSpill(r) = "TRUE" THEN "Excessive local spilling"
    ELSE IF IsCompileOverhead(r) = "TRUE" THEN "High compilation overhead"
    ELSE IF IsFailed(r) = "TRUE" THEN "Query failed"
    ELSE IF IsExcessiveScan(r) = "TRUE" THEN "Excessive data scan (>10GB)"
    ELSE "Other"

\* A division by zero in a row makes the whole query raise.
RecordFails(r) ==
    IsCompileOverhead(r) = "ERROR"
        \/ RatioAbove(r.PARTITIONS_SCANNED, r.PARTITIONS_TOTAL, 8, 10) = "ERROR"

\* One row per element of an array of labels, each beside its query.
RECURSIVE FlattenLabels(_, _)
FlattenLabels(labels, r) ==
    IF labels = << >> THEN << >>
    ELSE <<[ISSUE_TYPE |-> Head(labels), rec |-> r]>>
             \o FlattenLabels(Tail(labels), r)

\* FROM problematic_queries p, LATERAL FLATTEN(input => p.ISSUES) f
RECURSIVE Flattened(_)
Flattened(records) ==
    IF records = << >> THEN << >>
    ELSE (IF IsProblematic(Head(records)) = "TRUE"
          THEN FlattenLabels(Issues(Head(records)), Head(records))
          ELSE << >>)
             \o Flattened(Tail(records))

\* problematic_queries of streamlit_app.py: each kept query with its label.
RECURSIVE AppLabelled(_)
AppLabelled(records) ==
    IF records = << >> THEN << >>
    ELSE (IF AppIsProblematic(Head(records)) = "TRUE"
          THEN <<[ISSUE_TYPE |-> AppIssueType(Head(records)),
                  rec |-> Head(records)]>>
          ELSE << >>)
             \o AppLabelled(Tail(records))

\* The rows of a group.
RECURSIVE GroupOf(_, _)
GroupOf(flat, label) ==
    IF flat = << >> THEN << >>
    ELSE (IF Head(flat).ISSUE_TYPE = label THEN <<Head(flat).rec>> ELSE << >>)
             \o GroupOf(Tail(flat), label)

RECURSIVE SumElapsed(_)
SumElapsed(recs) ==
    IF recs = << >> THEN 0
    ELSE Head(recs).TOTAL_ELAPSED_TIME + SumElapsed(Tail(recs))

RECURSIVE SumScanned(_)
SumScanned(recs) ==
    IF recs = << >> THEN 0
    ELSE Head(recs).BYTES_SCANNED + SumScanned(Tail(recs))

\* GROUP BY ISSUE_TYPE with COUNT(*), AVG(ELAPSED_SEC), SUM(BYTES_SCANNED):
\* one row per label present.  The average is kept as its sum, in
\* milliseconds, beside the count.  The rows are kept as a set; their order
\* on screen (ORDER BY QUERY_COUNT DESC) is left out.
IssueSummary(flat) ==
    {[ISSUE_TYPE |-> label,
      QUERY_COUNT |-> Len(GroupOf(flat, label)),
      ELAPSED_SUM |-> SumElapsed(GroupOf(flat, label)),
      TOTAL_BYTES_SCANNED |-> SumScanned(GroupOf(flat, label))] :
        label \in {flat[k].ISSUE_TYPE : k \in 1..Len(flat)}}

\* get_query_performance_insights of utils.py.
GetQueryPerformanceInsights(records) ==
    IF \E k \in 1..Len(records) : RecordFails(records[k])
    THEN [impl |-> "utils", error |-> TRUE, rows |-> {}]
    ELSE [impl |-> "utils", error |-> FALSE,
          rows |-> IssueSummary(Flattened(records))]

\* get_query_performance_insights of streamlit_app.py.
AppGetQueryPerformanceInsights(records) ==
    IF \E k \in 1..Len(records) : RecordFails(records[k])
    THEN [impl |-> "app", error |-> TRUE, rows |-> {}]
    ELSE [impl |-> "app", error |-> FALSE,
          rows |-> IssueSummary(AppLabelled(records))]

\* query_issues['QUERY_COUNT'].sum()
RECURSIVE SumQueryCount(_)
SumQueryCount(rows) ==
    IF rows = {} THEN 0
    ELSE LET row == CHOOSE x \in rows : TRUE
         IN  row.QUERY_COUNT + SumQueryCount(rows \ {row})

\* The "Query Issues" KPI of the home page and "Slow Queries" of the
\* Performance page: the sum of QUERY_COUNT, 0 for an empty table.
TotalIssues(rows) == IF rows = {} THEN 0 ELSE SumQueryCount(rows)

ClassifierInit == CacheInit /\ AnomalyIdle /\ EngineIdle

\* A query finishes and enters QUERY_HISTORY.
RecordQuery(r) ==
    /\ Len(qrecords) < MaxRecords
    /\ qrecords' = Append(qrecords, r)
    /\ insights' = None
    /\ UNCHANGED notClassifierVars

\* A page calls queries.get_query_performance_insights(days).
Classify ==
    /\ insights' = GetQueryPerformanceInsights(qrecords)
    /\ UNCHANGED <<qrecords, notClassifierVars>>

\* The single-file app calls queries.get_query_performance_insights(days).
AppClassify ==
    /\ insights' = AppGetQueryPerformanceInsights(qrecords)
    /\ UNCHANGED <<qrecords, notClassifierVars>>

ClassifierNext ==
    \/ \E r \in QueryRecords : RecordQuery(r)
    \/ Classify
    \/ AppClassify

SpecClassifier == ClassifierInit /\ [][ClassifierNext]_vars

(***************************************************************************)
(* Claims about the issue classifier.  The tags are named as the           *)
(* specification names them; TagOf reads a label of either implementation. *)
(***************************************************************************)

Vocabulary ==
    {"LONG_RUNNING", "HIGH_QUEUE", "REMOTE_SPILL", "LOCAL_SPILL",
     "COMPILE_OVERHEAD", "FAILED", "EXCESSIVE_SCAN", "POOR_PRUNING"}

TagOf(label) ==
    CASE label = "Long running (>5 min)" -> "LONG_RUNNING"
      [] label = "High queue time" -> "HIGH_QUEUE"
      [] label \in {"Remote spilling", "Remote spilling detected"}
             -> "REMOTE_SPILL"
      [] label = "Excessive local spilling" -> "LOCAL_SPILL"
      [] label = "High compilation overhead" -> "COMPILE_OVERHEAD"
      [] label = "Query failed" -> "FAILED"
      [] label = "Excessive data scan (>10GB)" -> "EXCESSIVE_SCAN"
      [] label = "Poor partition pruning" -> "POOR_PRUNING"
      [] OTHER -> label

\* Whether a query satisfies the condition of a tag.
Satisfies(r, tag) ==
    "TRUE" =
        CASE tag = "LONG_RUNNING" -> IsLongRunning(r)
          [] tag = "HIGH_QUEUE" -> IsHighQueue(r)
          [] tag = "REMOTE_SPILL" -> IsRemoteSpill(r)
          [] tag = "LOCAL_SPILL" -> IsLocalSpill(r)
          [] tag = "COMPILE_OVERHEAD" -> IsCompileOverhead(r)
          [] tag = "FAILED" -> IsFailed(r)
          [] tag = "EXCESSIVE_SCAN" -> IsExcessiveScan(r)
          [] tag = "POOR_PRUNING" -> IsPoorPruning(r)

\* The number of queries of the window that satisfy the condition of a tag.
Carriers(tag) ==
    Cardinality({k \in 1..Len(qrecords) : Satisfies(qrecords[k], tag)})

\* The count the summary on screen shows for a tag; 0 without a row.
Shown(tag) ==
    LET rows == {row \in insights.rows : TagOf(row.ISSUE_TYPE) = tag} IN
    IF rows = {} THEN 0 ELSE (CHOOSE row \in rows : TRUE).QUERY_COUNT

Summarised == insights # None /\ ~insights.error

\* C14 as stated: tagging is additive; a query carries exactly the tags
\* whose condition it satisfies, none masking another, so the summary of a
\* window of one query has exactly the groups of the tags it satisfies.
C14_TaggingIsAdditive ==
    (Summarised /\ Len(qrecords) = 1) =>
        {TagOf(row.ISSUE_TYPE) : row \in insights.rows}
            = {tag \in Vocabulary : Satisfies(qrecords[1], tag)}

\* C15 as stated: the summary has one row per tag that some query carries,
\* counting the queries that carry it; a query without a tag is in no group
\* and no group has a label outside the vocabulary.
C15_OneRowPerCarriedTag ==
    Summarised =>
        /\ \A row \in insights.rows : TagOf(row.ISSUE_TYPE) \in Vocabulary
        /\ \A tag \in Vocabulary : Shown(tag) = Carriers(tag)

\* C16: a zero or absent divisor does not make the query fail and does
\* not produce a ratio tag.  The compile-overhead group counts only queries
\* with a nonzero elapsed time, the pruning group only queries with a
\* nonzero partition count, and the other tags of a query with a zero
\* divisor are still counted (in utils.py, where tags do not mask).
C16_ZeroDivisorGuarded ==
    insights # None =>
        /\ ~insights.error
        /\ Shown("COMPILE_OVERHEAD") <=
              Cardinality({k \in 1..Len(qrecords) :
                             qrecords[k].TOTAL_ELAPSED_TIME # 0})
        /\ Shown("POOR_PRUNING") <=
              Cardinality({k \in 1..Len(qrecords) :
                             /\ ~qrecords[k].PARTITIONS_TOTAL.null
                             /\ qrecords[k].PARTITIONS_TOTAL.v # 0})
        /\ insights.impl = "utils" => Shown("FAILED") = Carriers("FAILED")

\* A failed query with no elapsed time and no partitions has been
\* summarised: it is in the failed group and in no ratio group.
C16_Witness ==
    /\ Summarised
    /\ insights.impl = "utils"
    /\ Len(qrecords) = 1
    /\ qrecords[1].TOTAL_ELAPSED_TIME = 0
    /\ qrecords[1].COMPILATION_TIME > 0
    /\ qrecords[1].PARTITIONS_TOTAL = Value(0)
    /\ Shown("FAILED") = 1
    /\ Shown("COMPILE_OVERHEAD") = 0
    /\ Shown("POOR_PRUNING") = 0

\* C17 as stated: a query with more partitions scanned than there are makes
\* the classifier end in an error instead of being tagged and counted.
C17_InvalidRecordRejected ==
    (insights # None
       /\ \E k \in 1..Len(qrecords) :
             /\ ~qrecords[k].PARTITIONS_TOTAL.null
             /\ qrecords[k].PARTITIONS_TOTAL.v > 0
             /\ qrecords[k].PARTITIONS_SCANNED
                    > qrecords[k].PARTITIONS_TOTAL.v) =>
        insights.error

\* The query satisfies the condition of at least one tag.
Tagged(r) == \E tag \in Vocabulary : Satisfies(r, tag)

\* The number of queries of the window with at least one tag.
TaggedQueries == Cardinality({k \in 1..Len(qrecords) : Tagged(qrecords[k])})

\* The WHERE clause of the implementation that ran keeps the query.
Kept(r) ==
    "TRUE" = IF insights.impl = "utils" THEN IsProblematic(r)
             ELSE AppIsProblematic(r)

\* C27 as stated: the prefilter keeps every query that satisfies the
\* condition of at least one tag, a query with only an excessive scan, a
\* local spill, a compile overhead or poor pruning included, so that every
\* tagged query is counted in the summary at least once.
C27_PrefilterKeepsTagged ==
    Summarised =>
        /\ \A k \in 1..Len(qrecords) : Tagged(qrecords[k]) => Kept(qrecords[k])
        /\ TotalIssues(insights.rows) >= TaggedQueries

\* C28 as stated: the "Query Issues" KPI, the sum of QUERY_COUNT over the
\* groups of get_query_performance_insights of utils.py, is the number of
\* distinct queries that carry at least one tag.
C28_KpiCountsDistinctQueries ==
    (Summarised /\ insights.impl = "utils") =>
        TotalIssues(insights.rows) = TaggedQueries

-----------------------------------------------------------------------------
(* Part 5: the linear cost forecasts (specification SpecForecast)          *)
(*                                                                         *)
(* The Cost Management page forecasts the daily cost and the Warehouses    *)
(* page projects the daily credits, both with scipy's linregress over the  *)
(* day number and 30 days ahead.  The fit is kept exact: with              *)
(*   sxx = n * SUM(x^2) - SUM(x)^2  and  sxy = n * SUM(x*y) - SUM(x)*SUM(y) *)
(* the slope is sxy / sxx, the intercept (SUM(y) - slope * SUM(x)) / n,    *)
(* and the value predicted for day i is                                    *)
(*   (SUM(y) * sxx - sxy * SUM(x) + sxy * i * n) / (n * sxx),              *)
(* a numerator over the positive denominator n * sxx.                      *)

\* What a day can add to the metering history: the credits of each
\* warehouse that ran that day.
DayUsages == {<<0>>, <<5>>, <<5, 5>>}

\* The history holds at most MaxUsageDays days.
MaxUsageDays == 7

\* forecast_days = 30; periods=30
FORECAST_DAYS == 30

\* len(daily_costs) >= 7; len(daily_usage) >= 7
MIN_FORECAST_ROWS == 7

\* SUM(CREDITS_USED) of each day: groupby('USAGE_DATE').sum()
RECURSIVE DailyTotals(_)
DailyTotals(u) ==
    IF u = << >> THEN << >>
    ELSE <<SumSeq(Head(u))>> \o DailyTotals(Tail(u))

\* The number of rows of daily_usage: one per day and warehouse.
RECURSIVE UsageRows(_)
UsageRows(u) ==
    IF u = << >> THEN 0 ELSE Len(Head(u)) + UsageRows(Tail(u))

\* SUM(x * y) with x = 0 .. n-1 along the series, from position k on.
RECURSIVE SumXY(_, _)
SumXY(y, k) ==
    IF y = << >> THEN 0 ELSE k * Head(y) + SumXY(Tail(y), k + 1)

\* stats.linregress(day number, value) for day numbers 0 .. n-1.
LinRegress(y) ==
    LET n == Len(y)
        sx == (n * (n - 1)) \div 2
        sxx == n * (((n - 1) * n * (2 * n - 1)) \div 6) - sx * sx
        sy == SumSeq(y)
    IN [n |-> n, sx |-> sx, sy |-> sy, sxx |-> sxx,
        sxy |-> n * SumXY(y, 0) - sx * sy]

\* slope * day + intercept, as a numerator over n * sxx.
Predicted(fit, day) ==
    fit.sy * fit.sxx - fit.sxy * fit.sx + fit.sxy * day * fit.n

\* Variant: the first future day repeats the last observed day number.
FutureDays_FromLastDay(n) == [k \in 1..FORECAST_DAYS |-> n + k - 2]

\* range(len(daily_costs), len(daily_costs) + forecast_days)
FutureDays(n) == [k \in 1..FORECAST_DAYS |-> n + k - 1]

\* max(0, x)
Max0(x) == IF x < 0 THEN 0 ELSE x

RECURSIVE SumValues(_)
SumValues(points) ==
    IF points = << >> THEN 0
    ELSE Head(points).VALUE + SumValues(Tail(points))

\* The forecast column of the Cost Management page:
\* [slope * day + intercept for day in future_days]
ForecastCosts(fit) ==
    LET days == FutureDays(fit.n) IN
    [k \in 1..FORECAST_DAYS |->
        [DAY_INDEX |-> days[k], VALUE |-> Predicted(fit, days[k])]]

\* The projection column of the Warehouses page:
\* [max(0, intercept + slope * i) for i in range(n, n + 30)]
ProjectedCredits(fit) ==
    LET days == FutureDays(fit.n) IN
    [k \in 1..FORECAST_DAYS |->
        [DAY_INDEX |-> days[k], VALUE |-> Max0(Predicted(fit, days[k]))]]

\* What a section shows: a forecast (its points, as numerators over den,
\* and their sum), the notice that data is insufficient, nothing at all,
\* or the message of its except branch.
Shows(page, status, fit, points) ==
    [page |-> page, status |-> status,
     n |-> fit.n, den |-> fit.n * fit.sxx,
     points |-> points, total |-> SumValues(points)]

\* The "Cost Forecast (30 Days)" column of the Cost Management page.
CostForecast(u, cc) ==
    LET y == DailyCosts(DailyTotals(u), cc)
        fit == LinRegress(y)
    IN IF Len(y) >= MIN_FORECAST_ROWS
       THEN Shows("cost", "forecast", fit, ForecastCosts(fit))
       ELSE Shows("cost", "insufficient", fit, << >>)

\* The "Cost Projection" section of the Warehouses page.  linregress needs
\* two points; with fewer it raises and the except branch reports it.
CostProjection(u) ==
    LET y == DailyTotals(u)
        fit == LinRegress(y)
    IN IF UsageRows(u) >= MIN_FORECAST_ROWS
       THEN IF Len(y) < 2
            THEN Shows("warehouses", "error", fit, << >>)
            ELSE Shows("warehouses", "forecast", fit, ProjectedCredits(fit))
       ELSE Shows("warehouses", "none", fit, << >>)

ForecastInit == CacheInit /\ AnomalyIdle /\ EngineIdle

\* The metering history gains a day.
MeterDay(d) ==
    /\ Len(usage) < MaxUsageDays
    /\ usage' = Append(usage, d)
    /\ forecast' = None
    /\ UNCHANGED notForecastVars

\* The Cost Management page runs its forecast column.
RunCostForecast ==
    /\ forecast' = CostForecast(usage, credit_cost)
    /\ UNCHANGED <<usage, notForecastVars>>

\* The Warehouses page runs its cost projection.
RunCostProjection ==
    /\ forecast' = CostProjection(usage)
    /\ UNCHANGED <<usage, notForecastVars>>

ForecastNext ==
    \/ \E d \in DayUsages : MeterDay(d)
    \/ RunCostForecast
    \/ RunCostProjection

SpecForecast == ForecastInit /\ [][ForecastNext]_vars

(***************************************************************************)
(* Claims about the forecasts.  The daily series has one point per day of  *)
(* the metering history.                                                   *)
(***************************************************************************)

Forecasted == forecast # None /\ forecast.status = "forecast"

\* C18 as stated: on every page a regression is fitted only when the daily
\* series has at least 7 points; with fewer (6, say) no forecast point is
\* shown, with exactly 7 the forecast is shown.
C18_SevenDailyPoints ==
    forecast # None =>
        /\ (forecast.status = "forecast") = (Len(usage) >= 7)
        /\ Len(usage) < 7 => forecast.points = << >>

\* The value the regression line takes on a forecast day, as a numerator
\* over forecast.den.
LineValue(day) ==
    Predicted(LinRegress(
                  IF forecast.page = "cost"
                  THEN DailyCosts(DailyTotals(usage), credit_cost)
                  ELSE DailyTotals(usage)),
              day)

\* C19 as stated: on every page each forecast value is at least 0, and is
\* exactly 0 where the regression line is negative, so that no negative
\* day lowers the forecast total.
C19_NeverNegative ==
    Forecasted =>
        /\ \A k \in 1..Len(forecast.points) :
              LET p == forecast.points[k] IN
              /\ p.VALUE >= 0
              /\ LineValue(p.DAY_INDEX) < 0 => p.VALUE = 0
              /\ LineValue(p.DAY_INDEX) >= 0
                    => p.VALUE = LineValue(p.DAY_INDEX)
        /\ forecast.total >= 0

\* C20: a forecast over a series of N daily points has exactly 30 points,
\* at the day numbers N, N+1, ..., N+29 in this order, the first right
\* after the last observed day number N-1.
C20_HorizonFollowsSeries ==
    Forecasted =>
        /\ forecast.n = Len(usage)
        /\ Len(forecast.points) = FORECAST_DAYS
        /\ \A k \in 1..Len(forecast.points) :
              forecast.points[k].DAY_INDEX = Len(usage) + k - 1

\* A forecast over seven days is on the Cost Management page.
C20_Witness ==
    /\ Forecasted
    /\ forecast.page = "cost"
    /\ Len(usage) = 7
    /\ Len(forecast.points) = 30
    /\ forecast.points[1].DAY_INDEX = 7
    /\ forecast.points[30].DAY_INDEX = 36

-----------------------------------------------------------------------------
(* Part 6: the cost attribution (specification SpecAttribution)            *)
(*                                                                         *)
(* The Warehouse tab of the Cost Management page and the Cost Attribution  *)
(* tab of the Users and Queries page list the cost per group, largest      *)
(* first, and count the groups "for 80% of the cost".  cost_groups holds   *)
(* the cost of each group as the history has it; percentages are exact:    *)
(* the Warehouse tab's CUMULATIVE_PCT is the fraction 100 * cumsum / total,*)
(* the Users tab's COST_PCT is rounded to two decimals and kept in         *)
(* hundredths of a percent.                                                *)

\* The costs a group can have.
GroupCosts == {5, 10, 15, 20, 30, 50, 70}

\* At most MaxGroups warehouses or users.
MaxGroups == 4

RECURSIVE InsertDesc(_, _)
InsertDesc(c, s) ==
    IF s = << >> THEN <<c>>
    ELSE IF c >= Head(s) THEN <<c>> \o s
    ELSE <<Head(s)>> \o InsertDesc(c, Tail(s))

\* ORDER BY TOTAL_COST DESC / sort_values('TOTAL_COST', ascending=False)
RECURSIVE SortDesc(_)
SortDesc(s) ==
    IF s = << >> THEN << >> ELSE InsertDesc(Head(s), SortDesc(Tail(s)))

\* Series.sum()
RECURSIVE SumOf(_)
SumOf(s) == IF s = << >> THEN 0 ELSE Head(s) + SumOf(Tail(s))

\* Series.cumsum(), started from acc
RECURSIVE CumSumFrom(_, _)
CumSumFrom(acc, s) ==
    IF s = << >> THEN << >>
    ELSE <<acc + Head(s)>> \o CumSumFrom(acc + Head(s), Tail(s))

CumSum(s) == CumSumFrom(0, s)

\* numpy's round of num / den to an integer: to nearest, ties to even.
RoundHalfEven(num, den) ==
    LET q == num \div den
        r == num % den
    IN  IF 2 * r < den THEN q
        ELSE IF 2 * r > den THEN q + 1
        ELSE IF q % 2 = 0 THEN q ELSE q + 1

\* (CLOUD_COST / total_cloud_cost * 100).round(2), in hundredths of a percent
RECURSIVE CostPct(_, _)
CostPct(s, total) ==
    IF s = << >> THEN << >>
    ELSE <<RoundHalfEven(Head(s) * 10000, total)>> \o CostPct(Tail(s), total)

\* len(df[series <= 80]) for a series of fractions over den
RECURSIVE CountAtMost80(_, _)
CountAtMost80(s, den) ==
    IF s = << >> THEN 0
    ELSE (IF Head(s) <= 80 * den THEN 1 ELSE 0) + CountAtMost80(Tail(s), den)

\* What a tab shows: the groups in the order listed, the cumulative
\* percentage per group as cum[k] / den, and the count under "80%".
Attribution(page, rows, cum, den) ==
    [page |-> page, status |-> "shown", rows |-> rows,
     cum |-> cum, den |-> den, top_80_count |-> CountAtMost80(cum, den)]

NoAttribution(page) ==
    [page |-> page, status |-> "none", rows |-> << >>,
     cum |-> << >>, den |-> 1, top_80_count |-> 0]

\* ... * 100 on a Series
RECURSIVE Times100(_)
Times100(s) ==
    IF s = << >> THEN << >> ELSE <<100 * Head(s)>> \o Times100(Tail(s))

\* Cost Management, tab "Warehouse": Pareto chart and "Top N warehouses".
WarehousePareto(groups) ==
    IF groups = << >> THEN NoAttribution("cost")
    ELSE LET warehouse_costs == SortDesc(groups)
             total_wh_cost == SumOf(warehouse_costs)
             warehouse_costs_sorted == SortDesc(warehouse_costs)
         IN  Attribution("cost", warehouse_costs_sorted,
                         CumSum(Times100(warehouse_costs_sorted)),
                         total_wh_cost)

\* Users and Queries, tab "Cost Attribution": "Users for 80% Cost".
UserAttribution(groups) ==
    IF groups = << >> THEN NoAttribution("users")
    ELSE LET user_costs == SortDesc(groups)
             total_cloud_cost == SumOf(user_costs)
         IN  Attribution("users", user_costs,
                         CumSum(CostPct(user_costs, total_cloud_cost)), 100)

AttributionInit == CacheInit /\ AnomalyIdle /\ EngineIdle

\* A warehouse or a user with cost c enters the history; what a tab showed
\* before is no longer on screen.
AddGroup(c) ==
    /\ Len(cost_groups) < MaxGroups
    /\ cost_groups' = Append(cost_groups, c)
    /\ attribution' = None
    /\ UNCHANGED notAttributionVars

RunWarehousePareto ==
    /\ attribution' = WarehousePareto(cost_groups)
    /\ UNCHANGED <<cost_groups, notAttributionVars>>

RunUserAttribution ==
    /\ attribution' = UserAttribution(cost_groups)
    /\ UNCHANGED <<cost_groups, notAttributionVars>>

AttributionNext ==
    \/ \E c \in GroupCosts : AddGroup(c)
    \/ RunWarehousePareto
    \/ RunUserAttribution

SpecAttribution == AttributionInit /\ [][AttributionNext]_vars

(***************************************************************************)
(* Claims about the cost attribution.  The exact cumulative percentage of  *)
(* the k largest groups is 100 * (their cost) / (the total cost).          *)
(***************************************************************************)

Attributed == attribution # None /\ attribution.status = "shown"

\* The cost of the k largest groups.
TopCost(k) == CumSum(SortDesc(cost_groups))[k]

\* The k largest groups hold at least 80% of the total cost.
Reaches80(k) == 100 * TopCost(k) >= 80 * SumOf(cost_groups)

\* The k largest groups hold exactly 80% of the total cost.
Exactly80(k) == 100 * TopCost(k) = 80 * SumOf(cost_groups)

\* The smallest prefix of the groups, largest first, that reaches 80%.
ConcentrationPoint ==
    CHOOSE k \in 1..Len(cost_groups) :
        Reaches80(k) /\ \A j \in 1..(k - 1) : ~Reaches80(j)

SortedDescending(s) == \A k \in 1..(Len(s) - 1) : s[k] >= s[k + 1]

\* C21 as stated: the attribution rows are sorted by cost, largest first,
\* and the concentration count is the smallest prefix whose cumulative
\* percentage is at least 80: the group at which the cumulative sum first
\* reaches or passes 80% is included, so the count is never zero.
C21_SmallestPrefixReaching80 ==
    Attributed =>
        /\ SortedDescending(attribution.rows)
        /\ attribution.top_80_count = ConcentrationPoint
        /\ attribution.top_80_count >= 1

\* C22 as stated: when the cumulative percentage is exactly 80% at some
\* group, that group closes the concentration prefix, on every tab.
C22_Exactly80Closes ==
    Attributed =>
        \A k \in 1..Len(cost_groups) :
            Exactly80(k) => attribution.top_80_count = k

-----------------------------------------------------------------------------
(* Part 7: failing queries (specification SpecFailure)                     *)
(*                                                                         *)
(* Two cached methods of SnowflakeQueries are called while some of the     *)
(* ACCOUNT_USAGE views cannot be queried: get_warehouse_recommendations,   *)
(* which issues one query, and get_cortex_usage, which issues one query    *)
(* per Cortex function, each inside try/except.  st.cache_data stores what *)
(* the method returns and stores nothing when it raises.  The store, the   *)
(* clock and the Refresh button are those of Part 1.                       *)

\* The views get_cortex_usage reads, in the order it reads them.
CortexViews ==
    <<"CORTEX_ANALYST_USAGE_HISTORY", "CORTEX_SEARCH_DAILY_USAGE_HISTORY",
      "CORTEX_FINETUNING_HISTORY", "CORTEX_COMPLETE_USAGE_HISTORY">>

\* The view its fallback query reads.
FallbackView == "METERING_HISTORY"

\* The view get_warehouse_recommendations starts from.
WarehouseView == "WAREHOUSE_METERING_HISTORY"

Views == {CortexViews[i] : i \in 1..4} \cup {FallbackView, WarehouseView}

\* The sets of views that cannot be queried during a call: none, any one
\* view, the Cortex Complete view together with its fallback, or all.
Outages ==
    {{}} \cup {{v} : v \in Views}
         \cup {{CortexViews[4], FallbackView}, Views}

\* session.sql(...).to_pandas() on a view: raises while the view cannot be
\* queried, returns the (non-empty) table of the view otherwise.
Sql(view, failing) ==
    IF view \in failing THEN Raised ELSE Returned(<<view>>)

\* pd.DataFrame()
EmptyFrame == << >>

\* try: x = session.sql(...).to_pandas()  except: x = pd.DataFrame()
TryOrEmpty(result) == IF result.error THEN EmptyFrame ELSE result.rows

\* What a wrapped method did: whether it raised, what it returned, the
\* queries it issued in order and those of them that raised.
Computed(error, value, queries, failing) ==
    [error |-> error, value |-> value, queries |-> queries,
     failed |-> {queries[i] : i \in 1..Len(queries)} \cap failing]

\* get_cortex_usage: a dict of four tables; a query that raises leaves an
\* empty table, and for 'complete' the metering history is tried first.
GetCortexUsage(failing) ==
    LET complete == Sql(CortexViews[4], failing) IN
    Computed(FALSE,
             [analyst |-> TryOrEmpty(Sql(CortexViews[1], failing)),
              search |-> TryOrEmpty(Sql(CortexViews[2], failing)),
              finetuning |-> TryOrEmpty(Sql(CortexViews[3], failing)),
              complete |-> IF complete.error
                           THEN TryOrEmpty(Sql(FallbackView, failing))
                           ELSE complete.rows],
             IF complete.error
             THEN CortexViews \o <<FallbackView>> ELSE CortexViews,
             failing)

\* get_warehouse_recommendations: return session.sql(query).to_pandas()
FetchWarehouseRecommendations(failing) ==
    LET result == Sql(WarehouseView, failing) IN
    Computed(result.error, result.rows, <<WarehouseView>>, failing)

FailingFns == {"get_cortex_usage", "get_warehouse_recommendations"}

CallFn(fn, failing) ==
    IF fn = "get_cortex_usage" THEN GetCortexUsage(failing)
    ELSE FetchWarehouseRecommendations(failing)

\* Variant: a raised call leaves an empty table under the key.
StoreResult_CachesFailure(c, k, computed, t, s) ==
    WriteEntry(c, k, IF computed.error THEN EmptyFrame ELSE computed.value,
               t, s)

\* st.cache_data after the wrapped method ran: the returned value is
\* written under the key; an exception propagates and nothing is written.
StoreResult(c, k, computed, t, s) ==
    IF computed.error THEN c ELSE WriteEntry(c, k, computed.value, t, s)

\* The days argument of the calls followed here.
FailureDays == 30

FailureInit == CacheInit /\ AnomalyIdle /\ EngineIdle

\* A session calls queries.fn(30) while the views in `failing` cannot be
\* queried.  A fresh entry is returned without running the method.
CachedCall(s, fn, failing) ==
    /\ pc[s] = "idle"
    /\ calls < MaxCalls
    /\ calls' = calls + 1
    /\ LET k == MakeKey(s, fn, FailureDays) IN
        IF k \in DOMAIN cache /\ IsFresh(cache[k], now)
        THEN /\ outcome' = [fn |-> fn, src |-> "cache", error |-> FALSE,
                            value |-> cache[k].val, queries |-> << >>,
                            failed |-> {}, call |-> calls + 1]
             /\ UNCHANGED <<cache, sinceRefresh>>
        ELSE LET computed == CallFn(fn, failing) IN
             /\ outcome' = [fn |-> fn, src |-> "computed",
                            error |-> computed.error,
                            value |-> computed.value,
                            queries |-> computed.queries,
                            failed |-> computed.failed, call |-> calls + 1]
             /\ cache' = StoreResult(cache, k, computed, now, s)
             /\ sinceRefresh' = IF computed.error THEN sinceRefresh
                                ELSE sinceRefresh \cup {k}
    /\ UNCHANGED <<now, telemetry, pc, req, local, ret>>
    /\ UNCHANGED notFailureVars

FailureNext ==
    \/ \E s \in Sessions, fn \in FailingFns, failing \in Outages :
          CachedCall(s, fn, failing)
    \/ \E s \in Sessions : Refresh(s)
    \/ Tick

SpecFailure == FailureInit /\ [][FailureNext]_vars

(***************************************************************************)
(* Claims about failing queries.                                           *)
(***************************************************************************)

\* The key of the calls of fn followed in Part 7.
FailureKey(fn) == MakeKey("s1", fn, FailureDays)

\* The last call ran its method and at least one of its queries raised.
QueryFailed ==
    outcome # None /\ outcome.src = "computed" /\ outcome.failed # {}

\* No query text is issued twice in one call.
IssuedOnce(queries) ==
    \A i, j \in 1..Len(queries) : queries[i] = queries[j] => i = j

\* C23 as stated: when a query of a call fails, the call raises to its
\* caller: no default value is returned in place of the failed result, no
\* substitute query is issued, and each query is attempted exactly once.
C23_FailureReachesCaller ==
    QueryFailed =>
        /\ outcome.error
        /\ IssuedOnce(outcome.queries)
        /\ \A i \in 1..Len(outcome.queries) :
              outcome.queries[i] # FallbackView

\* The step is a cached call of fn.
CallOf(fn) == calls' = calls + 1 /\ outcome'.fn = fn

\* C25: a call whose method raises writes nothing and leaves the store as
\* it was, and the next call of the same method runs the method again; a
\* call whose method returns writes the returned value under the key with
\* the time of the call, and every call that finds an entry younger than
\* the ttl is served that entry's value without running the method, an
\* empty table that stands for a failed query included.
C25_OnlyReturnsAreCached ==
    [][\A fn \in FailingFns :
          CallOf(fn) =>
            LET k == FailureKey(fn) IN
            /\ outcome'.error => cache' = cache
            /\ (outcome # None /\ outcome.error /\ outcome.fn = fn)
                  => outcome'.src = "computed"
            /\ (outcome'.src = "computed" /\ ~outcome'.error)
                  => /\ k \in DOMAIN cache'
                     /\ cache'[k].val = outcome'.value
                     /\ cache'[k].ts = now
                     /\ \A x \in DOMAIN cache \ {k} :
                           x \in DOMAIN cache' /\ cache'[x] = cache[x]
            /\ (k \in DOMAIN cache /\ now - cache[k].ts < CACHE_TTL)
                  => /\ outcome'.src = "cache"
                     /\ ~outcome'.error
                     /\ outcome'.value = cache[k].val
                     /\ outcome'.queries = << >>
                     /\ cache' = cache]_vars

\* Half an hour after get_cortex_usage stored a dict whose 'complete' table
\* is an empty stand-in, a call is served that dict, and
\* get_warehouse_recommendations has no entry.
C25_Witness ==
    /\ outcome # None
    /\ outcome.fn = "get_cortex_usage"
    /\ outcome.src = "cache"
    /\ outcome.value.complete = EmptyFrame
    /\ outcome.value.analyst # EmptyFrame
    /\ FailureKey("get_cortex_usage") \in DOMAIN cache
    /\ now - cache[FailureKey("get_cortex_usage")].ts = 1800
    /\ FailureKey("get_warehouse_recommendations") \notin DOMAIN cache
    /\ calls = 3

-----------------------------------------------------------------------------
(* Part 8: the session settings (specification SpecSession)                *)
(*                                                                         *)
(* Every page starts with initialize_session_state() and                   *)
(* render_settings_sidebar(): the defaults are filled in, each sidebar     *)
(* widget is drawn with the current value of its key and what it returns   *)
(* is assigned back to the key.  A widget returns the value it was given   *)
(* unless the user entered another one.  The page then reads time_period   *)
(* and calls a cached query with it.  Money is in tenths of a dollar.      *)

\* defaults = {...} of initialize_session_state
SessionDefaults ==
    [credit_cost |-> 25,
     storage_cost_per_tb |-> 230,
     time_period |-> 30,
     alert_cost_spike_pct |-> 50,
     alert_query_time_sec |-> 300,
     alert_failure_rate_pct |-> 10,
     alert_freshness_hours |-> 24,
     cache_ttl |-> 3600,
     max_results |-> 1000]

SessionKeys == DOMAIN SessionDefaults

\* What the user can enter in each widget of the sidebar: the default and
\* other values within the widget's range and step.
WidgetChoices ==
    [credit_cost |-> CreditCosts,
     storage_cost_per_tb |-> {230, 400},
     time_period |-> DaysArgs,
     alert_cost_spike_pct |-> {50, 75},
     alert_query_time_sec |-> {300, 600},
     alert_failure_rate_pct |-> {10, 20},
     alert_freshness_hours |-> {24, 48}]

WidgetKeys == DOMAIN WidgetChoices

\* Variant: every key is set to its default on each call.
InitializeSessionState_Overwrites(state) == SessionDefaults

\* initialize_session_state(): for key, value in defaults.items():
\*     if key not in st.session_state: st.session_state[key] = value
InitializeSessionState(state) ==
    [key \in DOMAIN state \cup SessionKeys |->
        IF key \in DOMAIN state THEN state[key] ELSE SessionDefaults[key]]

\* No widget is touched in a run.
NoInput == << >>

\* The user enters value v in the widget of the key.
Entered(key, v) == [k \in {key} |-> v]

\* The inputs of one run: nothing, or one widget changed.
RunInputs ==
    {NoInput} \cup
    UNION {{Entered(key, v) : v \in WidgetChoices[key]} : key \in WidgetKeys}

\* render_settings_sidebar(): initialize_session_state(), then for each
\* widget  st.session_state.key = st.widget(..., value=st.session_state.key)
RenderSettingsSidebar(state, input) ==
    LET initialized == InitializeSessionState(state) IN
    [key \in DOMAIN initialized |->
        IF key \in DOMAIN input THEN input[key] ELSE initialized[key]]

\* The widget inputs so far, with those of this run.
Remembered(inputs, input) ==
    [key \in DOMAIN inputs \cup DOMAIN input |->
        IF key \in DOMAIN input THEN input[key] ELSE inputs[key]]

\* The cached query a page makes with the time period of the session.
PageFn == "get_warehouse_metrics"

SessionInit == CacheInit /\ AnomalyIdle /\ EngineIdle

\* One run of a page script by session s: the two setup calls, then
\* time_period = st.session_state.time_period and the page's cached query.
PageRun(s, input) ==
    /\ pc[s] = "idle"
    /\ LET state == RenderSettingsSidebar(
                        InitializeSessionState(session_state), input)
           k == MakeKey(s, PageFn, state.time_period)
       IN  /\ session_state' = state
           /\ widget_input' = Remembered(widget_input, input)
           /\ IF k \in DOMAIN cache /\ IsFresh(cache[k], now)
              THEN /\ ret' = [to |-> s, fn |-> PageFn,
                              days |-> state.time_period,
                              val |-> cache[k].val, src |-> "cache"]
                   /\ UNCHANGED <<cache, sinceRefresh>>
              ELSE LET v == ComputeFn(PageFn, state.time_period, telemetry) IN
                   /\ cache' = WriteEntry(cache, k, v, now, s)
                   /\ sinceRefresh' = sinceRefresh \cup {k}
                   /\ ret' = [to |-> s, fn |-> PageFn,
                              days |-> state.time_period,
                              val |-> v, src |-> "computed"]
    /\ UNCHANGED <<now, telemetry, pc, req, local, calls>>
    /\ UNCHANGED notSessionVars

\* The "Refresh Data" button: the sidebar is rendered up to the button,
\* then st.cache_data.clear() and st.rerun().
RefreshData(s) ==
    /\ pc[s] = "idle"
    /\ session_state # << >>
    /\ session_state' = RenderSettingsSidebar(session_state, NoInput)
    /\ cache' = ClearedCache(cache)
    /\ sinceRefresh' = {}
    /\ UNCHANGED <<now, telemetry, pc, req, local, ret, calls, widget_input>>
    /\ UNCHANGED notSessionVars

SessionNext ==
    \/ \E input \in RunInputs : PageRun("s1", input)
    \/ RefreshData("s1")

SpecSession == SessionInit /\ [][SessionNext]_vars

(***************************************************************************)
(* Claims about the session settings.                                      *)
(***************************************************************************)

\* C30: initialize_session_state gives a key its default only when the key
\* is absent and leaves every present value as it is, so calling it twice
\* is calling it once; and whatever runs, changes and refreshes happened,
\* every setting the user entered has the value entered last.
C30_DefaultsOnlyWhenAbsent ==
    LET once == InitializeSessionState(session_state) IN
    /\ DOMAIN once = DOMAIN session_state \cup SessionKeys
    /\ \A key \in DOMAIN session_state : once[key] = session_state[key]
    /\ \A key \in SessionKeys \ DOMAIN session_state :
          once[key] = SessionDefaults[key]
    /\ InitializeSessionState(once) = once
    /\ \A key \in DOMAIN widget_input :
          /\ key \in DOMAIN session_state
          /\ session_state[key] = widget_input[key]
    /\ \A key \in DOMAIN session_state \ DOMAIN widget_input :
          session_state[key] = SessionDefaults[key]

\* The user set the credit cost to 1.0, the time period to 7 days and the
\* cost spike threshold to 75%, then refreshed and ran a page: the three
\* values are still there and the query ran with 7 days.
C30_Witness ==
    /\ DOMAIN widget_input =
          {"credit_cost", "time_period", "alert_cost_spike_pct"}
    /\ session_state # << >>
    /\ session_state.credit_cost = 10
    /\ session_state.time_period = 7
    /\ session_state.alert_cost_spike_pct = 75
    /\ session_state.alert_query_time_sec = 300
    /\ ret # None
    /\ ret.src = "computed"
    /\ ret.days = 7
    /\ DOMAIN cache = {MakeKey("s1", PageFn, 7)}

=============================================================================
